---- MODULE Spec2Model ----
(***************************************************************************)
(* A model of terraform-provider-jamfautoupdate: the client that reads the *)
(* title definitions from an HTTP endpoint or from a local JSON file       *)
(* (internal/client), the provider's Configure and the titles data         *)
(* source's Read.                                                          *)
(*                                                                         *)
(* GetTitles blocks in httpClient.Do, so a network call is two steps: the  *)
(* call up to the request being sent, and the rest of the handler once the *)
(* transport has answered.  A file-mode call, and every other handler, is  *)
(* one step.                                                               *)
(***************************************************************************)
EXTENDS Integers, Sequences, FiniteSets, TLC

\* Bounds of the model.
MaxTitles == 2      \* longest array held by the definitions source
MaxNames == 2       \* longest list of requested title names

----------------------------------------------------------------------------
(* Go values *)

\* A *string: nil, or a pointer to a string.
Nil == <<>>
Ptr(s) == <<s>>
Deref(p) == p[1]

\* A Go error value: nil, an error made by fmt.Errorf, or *TitlesNotFoundError.
NoError == [type |-> "nil"]
Errorf(msg) == [type |-> "error", msg |-> msg]
TitlesNotFoundError(missing) == [type |-> "TitlesNotFoundError", MissingTitles |-> missing]

RECURSIVE Join(_, _)
\* strings.Join
Join(elems, sep) ==
    IF Len(elems) = 0 THEN ""
    ELSE IF Len(elems) = 1 THEN elems[1]
    ELSE elems[1] \o sep \o Join(Tail(elems), sep)

\* All sequences over S of length at most n.
SeqsUpTo(S, n) == UNION {[1..k -> S] : k \in 0..n}

----------------------------------------------------------------------------
(* The names and the JSON documents the model ranges over *)

\* The names a caller asks for: "AppA" and "AppB" occur in definitions
\* sources; "appa" differs from "AppA" by case only and is in no source.
RequestNames == {"AppA", "AppB", "appa"}

\* Go's order on strings (bytewise), as slices.Sort uses it.
StringRank(s) == CASE s = "AppA" -> 1 [] s = "AppB" -> 2 [] s = "appa" -> 3

\* JSON values of a string-typed field: null, or a string.
JNull == <<"null">>
JString(s) == <<"string", s>>

\* The elements a JSON array of the source may hold: title objects (two of
\* them share the name AppA, one has a null name), or an element that does
\* not decode into a Title (a number, broken syntax, a cut-off object).
TitleObject(name, version) ==
    [kind |-> "object", title_name |-> name, title_version |-> version]
BadElement == [kind |-> "bad"]
JSONElements ==
    { TitleObject(JString("AppA"), JString("1.0")),
      TitleObject(JString("AppA"), JString("2.0")),
      TitleObject(JString("AppB"), JString("1.0")),
      TitleObject(JNull, JString("1.0")),
      BadElement }

\* A document: what its top-level value is ("malformed" is no JSON at all,
\* "other" an object, number or string), and for an array its elements and
\* whether the closing bracket is there (FALSE: the input ends early).
ArrayDoc(elems, closed) == [top |-> "array", elems |-> elems, closed |-> closed]
ScalarDoc(top) == [top |-> top, elems |-> <<>>, closed |-> TRUE]

\* A document that is a well-formed JSON array of title records.
WellFormedArray(doc) ==
    /\ doc.top = "array"
    /\ doc.closed
    /\ \A i \in 1..Len(doc.elems) : doc.elems[i].kind = "object"

----------------------------------------------------------------------------
(* encoding/json, as the client uses it *)

\* A JSON string-or-null into a *string field.
decodeStringPtr(v) == IF v = JNull THEN Nil ELSE Ptr(v[2])

\* A JSON object into a Title.
decodeTitle(obj) ==
    [TitleName |-> decodeStringPtr(obj.title_name),
     TitleVersion |-> decodeStringPtr(obj.title_version)]

\* Variant of decodeTitles that drops the records whose name is null.
decodeTitlesSkipNullNames(doc) ==
    CASE doc.top = "null" -> [ok |-> TRUE, titles |-> <<>>]
      [] doc.top = "array" /\ WellFormedArray(doc) ->
            [ok |-> TRUE,
             titles |-> SelectSeq([i \in 1..Len(doc.elems) |-> decodeTitle(doc.elems[i])],
                                  LAMBDA t : t.TitleName # Nil)]
      [] OTHER -> [ok |-> FALSE, titles |-> <<>>]

\* json.NewDecoder(r).Decode(&titles) with titles a []Title: the first JSON
\* value of the input is read whole.  null leaves the slice nil and is no
\* error; any other non-array value, broken syntax, an element that is no
\* title object, or an input that ends before the array closes, fail.
decodeTitles(doc) ==
    CASE doc.top = "null" -> [ok |-> TRUE, titles |-> <<>>]
      [] doc.top = "array" /\ WellFormedArray(doc) ->
            [ok |-> TRUE, titles |-> [i \in 1..Len(doc.elems) |-> decodeTitle(doc.elems[i])]]
      [] OTHER -> [ok |-> FALSE, titles |-> <<>>]

----------------------------------------------------------------------------
(* internal/client: helpers *)

\* Variant of titlesMissing that compares names without regard to case.
titlesMissingFoldCase(titles, requested) ==
    LET FoldCase(s) == IF s = "AppA" THEN "appa" ELSE s
        found == {FoldCase(Deref(titles[i].TitleName)) :
                     i \in {j \in 1..Len(titles) : titles[j].TitleName # Nil}}
    IN  SelectSeq(requested, LAMBDA name : FoldCase(name) \notin found)

\* titlesMissing: the requested names, in request order, that no title of
\* the slice carries; titles with a nil name are skipped.
titlesMissing(titles, requested) ==
    LET found == {Deref(titles[i].TitleName) :
                     i \in {j \in 1..Len(titles) : titles[j].TitleName # Nil}}
    IN  SelectSeq(requested, LAMBDA name : name \notin found)

\* Variant of SortStrings that leaves the slice as it is.
SortStringsNot(s) == s

RECURSIVE SortStrings(_)
\* slices.Sort on a []string.
SortStrings(s) ==
    IF Len(s) = 0 THEN <<>>
    ELSE LET m == CHOOSE i \in 1..Len(s) :
                      \A j \in 1..Len(s) : StringRank(s[i]) <= StringRank(s[j])
         IN  <<s[m]>> \o SortStrings(SubSeq(s, 1, m - 1) \o SubSeq(s, m + 1, Len(s)))

\* The orders in which Go may iterate over a map keyed by title names.
MapOrders ==
    {o \in [1..Cardinality(RequestNames) -> RequestNames] :
        \A i, j \in DOMAIN o : i # j => o[i] # o[j]}

\* Events the handlers emit: calls of the Logger, and the resources they
\* acquire and release.
LogAuthEvent(message) == [ev |-> "LogAuth", message |-> message]
LogRequestEvent(method, url) == [ev |-> "LogRequest", method |-> method, url |-> url, body |-> Nil]
LogResponseEvent(status, body) == [ev |-> "LogResponse", statusCode |-> status, body |-> body]
OpenEvent(name) == [ev |-> "Open", name |-> name]
CloseEvent(name) == [ev |-> "Close", name |-> name]
DecodeEvent(name) == [ev |-> "Decode", name |-> name]
PrintfEvent(message) == [ev |-> "Printf", message |-> message]

----------------------------------------------------------------------------
(* internal/client: closeWithLog and the deferred close *)

\* Variant of closeWithLog that leaves the closer open.
closeWithLogSkipped(c, name, closeOK) == <<>>

\* closeWithLog(ctx, closer, name): closer.Close(); an error goes to the
\* logger, or is printed when the client has none.
closeWithLog(c, name, closeOK) ==
    <<CloseEvent(name)>>
    \o IF closeOK THEN <<>>
       ELSE IF c.logger THEN <<LogAuthEvent("Failed to close " \o name)>>
       ELSE <<PrintfEvent("warning: failed to close " \o name)>>

\* What a call returns, with the events it emitted on the way.
Returned(titles, err, events) == [titles |-> titles, err |-> err, events |-> events]

\* Variant of deferred in which a failed close replaces the error returned.
deferredOverrides(ret, closing) ==
    IF Len(closing) > 1
    THEN Returned(<<>>, [type |-> "error", msg |-> "error closing"], ret.events \o closing)
    ELSE Returned(ret.titles, ret.err, ret.events \o closing)

\* defer c.closeWithLog(...): the close runs after the values to return are
\* set, and nothing it does reaches them.
deferred(ret, closing) == Returned(ret.titles, ret.err, ret.events \o closing)

----------------------------------------------------------------------------
(* internal/client: getTitlesFromFile *)

RECURSIVE scanElementsKeepingRepeats(_, _, _, _)
\* Variant of scanElements that keeps every record with a wanted name, the
\* repeated ones too.
scanElementsKeepingRepeats(elems, i, wanted, titles) ==
    IF i > Len(elems)
    THEN [ok |-> TRUE,
          wanted |-> wanted \ {Deref(titles[k].TitleName) : k \in 1..Len(titles)},
          titles |-> titles, examined |-> i - 1]
    ELSE IF elems[i].kind # "object"
    THEN [ok |-> FALSE, wanted |-> wanted, titles |-> titles, examined |-> i]
    ELSE LET title == decodeTitle(elems[i])
         IN  IF title.TitleName # Nil /\ Deref(title.TitleName) \in wanted
             THEN scanElementsKeepingRepeats(elems, i + 1, wanted, Append(titles, title))
             ELSE scanElementsKeepingRepeats(elems, i + 1, wanted, titles)

RECURSIVE scanElementsToEnd(_, _, _, _)
\* Variant of scanElements that goes on to the end of the array when the
\* last wanted name is found.
scanElementsToEnd(elems, i, wanted, titles) ==
    IF i > Len(elems)
    THEN [ok |-> TRUE, wanted |-> wanted, titles |-> titles, examined |-> i - 1]
    ELSE IF elems[i].kind # "object"
    THEN [ok |-> FALSE, wanted |-> wanted, titles |-> titles, examined |-> i]
    ELSE LET title == decodeTitle(elems[i])
         IN  IF title.TitleName # Nil /\ Deref(title.TitleName) \in wanted
             THEN scanElementsToEnd(elems, i + 1, wanted \ {Deref(title.TitleName)},
                                    Append(titles, title))
             ELSE scanElementsToEnd(elems, i + 1, wanted, titles)

RECURSIVE scanElements(_, _, _, _)
\* The streaming loop: for decoder.More() { decoder.Decode(&title) ... }.
\* More() is false at the closing bracket and also at the end of the input.
\* i is the next element, wanted the names still looked for, titles the
\* titles collected.  examined counts the elements decoded.
scanElements(elems, i, wanted, titles) ==
    IF i > Len(elems)
    THEN [ok |-> TRUE, wanted |-> wanted, titles |-> titles, examined |-> i - 1]
    ELSE IF elems[i].kind # "object"
    THEN [ok |-> FALSE, wanted |-> wanted, titles |-> titles, examined |-> i]
    ELSE LET title == decodeTitle(elems[i])
         IN  IF title.TitleName = Nil
             THEN scanElements(elems, i + 1, wanted, titles)
             ELSE IF Deref(title.TitleName) \in wanted
             THEN LET rest == wanted \ {Deref(title.TitleName)}
                      got == Append(titles, title)
                  IN  IF rest = {}
                      THEN [ok |-> TRUE, wanted |-> rest, titles |-> got, examined |-> i]
                      ELSE scanElements(elems, i + 1, rest, got)
             ELSE scanElements(elems, i + 1, wanted, titles)

\* getTitlesFromFile from the opened file on: what it decodes from doc and
\* returns, before the deferred close runs.
readDefinitions(titleNames, doc, mapOrder, decoding) ==
    IF Len(titleNames) = 0
    THEN LET d == decodeTitles(doc)
         IN  IF ~d.ok
             THEN Returned(<<>>, Errorf("error decoding definitions file"), decoding)
             ELSE Returned(d.titles, NoError, decoding)
    ELSE IF doc.top = "malformed"
    THEN Returned(<<>>, Errorf("error reading definitions file"), decoding)
    ELSE IF doc.top # "array"
    THEN Returned(<<>>, Errorf("definitions file must contain a JSON array of titles"),
                  decoding)
    ELSE LET wanted == {titleNames[i] : i \in 1..Len(titleNames)}
             scan == scanElements(doc.elems, 1, wanted, <<>>)
         IN  IF ~scan.ok
             THEN Returned(<<>>, Errorf("error decoding definitions file"), decoding)
             ELSE IF scan.wanted # {}
             THEN LET missing == SelectSeq(mapOrder, LAMBDA name : name \in scan.wanted)
                  IN  Returned(<<>>, TitlesNotFoundError(SortStrings(missing)), decoding)
             ELSE Returned(scan.titles, NoError, decoding)

\* getTitlesFromFile(ctx, titleNames...) of client c, the file holding doc;
\* openOK is whether os.Open succeeds, closeOK whether the file's Close
\* does, mapOrder the iteration order of the wanted map.  The context is
\* not looked at.
getTitlesFromFile(c, titleNames, doc, openOK, mapOrder, closeOK) ==
    LET logged == IF c.logger
                  THEN <<LogAuthEvent("Reading titles from definitions file")>>
                  ELSE <<>>
        decoding == logged \o <<OpenEvent("definitions file"), DecodeEvent("definitions file")>>
    IN  IF ~openOK
        THEN Returned(<<>>, Errorf("error opening definitions file"), logged)
        ELSE deferred(readDefinitions(titleNames, doc, mapOrder, decoding),
                      closeWithLog(c, "definitions file", closeOK))

----------------------------------------------------------------------------
(* internal/client: NewClient, SetLogger and the network path of GetTitles *)

NoClient == [made |-> FALSE, baseURL |-> "", definitionsFile |-> "", logger |-> FALSE]

\* NewClient(baseURL, definitionsFile): nothing is validated, no logger yet.
NewClient(baseURL, definitionsFile) ==
    [made |-> TRUE, baseURL |-> baseURL, definitionsFile |-> definitionsFile,
     logger |-> FALSE]

\* Client.SetLogger, with the provider's NewTerraformLogger().
SetLogger(c) == [c EXCEPT !.logger = TRUE]

\* Variant of requestURL that sorts the names before joining them.
requestURLSorted(baseURL, titleNames) ==
    IF Len(titleNames) > 0
    THEN baseURL \o "/" \o Join(SortStrings(titleNames), ",")
    ELSE baseURL

\* url := c.baseURL, or baseURL + "/" + the names joined by commas.
requestURL(baseURL, titleNames) ==
    IF Len(titleNames) > 0
    THEN baseURL \o "/" \o Join(titleNames, ",")
    ELSE baseURL

\* http.NewRequestWithContext(ctx, http.MethodGet, url, nil) fails when the
\* URL does not parse; a URL that starts with a colon has no scheme.
newRequestFails(url) == Len(url) > 0 /\ SubSeq(url, 1, 1) = ":"
newRequest(url) == [method |-> "GET", url |-> url]

\* Variant of Do that sends the request a second time.
DoWithRetry(req) == <<req, req>>

\* c.httpClient.Do(req): the requests GetTitles puts on the wire.
Do(req) == <<req>>

\* Variant of statusAccepted that lets every 2xx status through.
statusAcceptedAny2xx(statusCode) == statusCode \in 200..299

\* resp.StatusCode != http.StatusOK is a failure.
statusAccepted(statusCode) == statusCode = 200

\* Variant of doHonoursContext in which Do answers whatever the context.
doIgnoresContext(ctxState) == TRUE

\* c.httpClient.Do(req) returns a response only while the context of the
\* request is not done; once it is, Do returns its error.
doHonoursContext(ctxState) == ctxState = "live"

\* logHTTPResponse, called when a logger is set: io.ReadAll(resp.Body); if
\* that fails, LogAuth and return with the body as it is; otherwise close
\* the body, log the response, and put a buffer in the body's place.
logHTTPResponse(c, resp) ==
    IF ~c.logger THEN <<>>
    ELSE IF ~resp.readOK THEN <<LogAuthEvent("Failed to read response body")>>
    ELSE <<CloseEvent("response body")>>
         \o (IF resp.closeOK THEN <<>> ELSE <<LogAuthEvent("Failed to close response body")>>)
         \o <<LogResponseEvent(resp.status, resp.body), OpenEvent("buffered body")>>

\* The body the deferred close gets: the buffer logHTTPResponse left, whose
\* Close cannot fail, or the body of the response.
deferredBodyClose(c, resp) ==
    IF c.logger /\ resp.readOK
    THEN closeWithLog(c, "buffered body", TRUE)
    ELSE closeWithLog(c, "response body", resp.closeOK)

\* json.NewDecoder(resp.Body).Decode(&titles) in GetTitles.  resp.body is
\* what the body delivers; with readOK false the read after it fails where
\* the end of the input would be.  The decoder returns at the closing
\* bracket of an array and never makes that read; behind any other value
\* it reads on and fails.  When logHTTPResponse's io.ReadAll has met the
\* failure it has left resp.Body as it was, read to its failure: the
\* decoder gets nothing.
decodeBody(c, resp) ==
    IF ~resp.readOK /\ (c.logger \/ resp.body.top # "array")
    THEN [ok |-> FALSE, titles |-> <<>>]
    ELSE decodeTitles(resp.body)

\* GetTitles from the logging on: check the status, decode the body, check
\* that every requested name came back.
checkAndDecode(c, titleNames, resp, logged) ==
    LET decoding == logged \o <<DecodeEvent("response body")>>
    IN  IF ~statusAccepted(resp.status)
        THEN Returned(<<>>,
                      Errorf("API request failed with status code: " \o ToString(resp.status)),
                      logged)
        ELSE LET d == decodeBody(c, resp)
             IN  IF ~d.ok
                 THEN Returned(<<>>, Errorf("error decoding response"), decoding)
                 ELSE IF Len(titleNames) > 0 /\ Len(titlesMissing(d.titles, titleNames)) > 0
                 THEN Returned(<<>>, TitlesNotFoundError(titlesMissing(d.titles, titleNames)),
                               decoding)
                 ELSE Returned(d.titles, NoError, decoding)

\* Variant of handleResponse that logs the response when the status is
\* checked and the body decoded.
handleResponseLoggingLast(c, titleNames, resp) ==
    LET ret == checkAndDecode(c, titleNames, resp, <<OpenEvent("response body")>>)
    IN  deferred(Returned(ret.titles, ret.err, ret.events \o logHTTPResponse(c, resp)),
                 deferredBodyClose(c, resp))

\* GetTitles from the response on: log it, register the deferred close,
\* and go on to the status and the body.
handleResponse(c, titleNames, resp) ==
    deferred(checkAndDecode(c, titleNames, resp,
                            <<OpenEvent("response body")>> \o logHTTPResponse(c, resp)),
             deferredBodyClose(c, resp))

----------------------------------------------------------------------------
(* The endpoint, as the test servers stand in for it *)

\* Status codes an endpoint answers with.
StatusCodes == {200, 201, 404}

\* The records of the source that carry one of the names asked for.
matchingRecords(doc, names) ==
    IF doc.top = "array" /\ Len(names) > 0
    THEN ArrayDoc(SelectSeq(doc.elems,
                            LAMBDA e : /\ e.kind = "object"
                                       /\ e.title_name # JNull
                                       /\ e.title_name[2] \in {names[i] : i \in 1..Len(names)}),
                  doc.closed)
    ELSE doc

\* The body served: the whole source whatever the path, or the records that
\* match the names of the path.
Serves == {"all", "matching"}
servedBody(serves, doc, names) ==
    IF serves = "matching" THEN matchingRecords(doc, names) ELSE doc

----------------------------------------------------------------------------
(* internal/resources/titles: images, as processUninstallIcon handles them *)

\* BaseImageSize and OverlaySize, in pixels.
BaseImageSize == 512
OverlaySize == 128

\* An image a decoder produced: what it shows (id) and its width and height.
DecodedImage(id, w, h) == [kind |-> "decoded", id |-> id, w |-> w, h |-> h]

\* Bytes: a PNG file of an image, or bytes no registered decoder knows (only
\* image/png is imported).  Texts: the standard base64 of some bytes, or a
\* text that is no base64.
PNGBytes(img) == [format |-> "png", image |-> img]
NotAnImage == [format |-> "none"]
Base64Text(bytes) == [base64 |-> TRUE, bytes |-> bytes]
NotBase64 == [base64 |-> FALSE]

\* base64.StdEncoding.DecodeString and EncodeToString.
base64Decode(text) ==
    IF text.base64 THEN [ok |-> TRUE, bytes |-> text.bytes] ELSE [ok |-> FALSE]
base64Encode(bytes) == Base64Text(bytes)

\* Variant of imageDecode that makes an empty picture of bytes it does not know.
imageDecodeLenient(bytes) ==
    IF bytes.format = "png" THEN [ok |-> TRUE, image |-> bytes.image]
    ELSE [ok |-> TRUE, image |-> DecodedImage("blank", 1, 1)]

\* image.Decode, with the PNG decoder the one registered: the image decoded
\* from the bytes png.Encode wrote is the image encoded, pixel by pixel.
imageDecode(bytes) ==
    IF bytes.format = "png" THEN [ok |-> TRUE, image |-> bytes.image] ELSE [ok |-> FALSE]

\* png.Encode into a bytes.Buffer.
pngEncode(img) == PNGBytes(img)

\* OverlayImageBase64: the base64 of a PNG of 64 by 64 pixels.
OverlayImageBase64 == Base64Text(PNGBytes(DecodedImage("badge", 64, 64)))

\* draw.CatmullRom.Scale(dst, dst.Bounds(), src, src.Bounds(), draw.Over, nil)
\* into a new RGBA of w by h: src resampled to fill it.
CatmullRomScale(src, w, h) == [kind |-> "scaled", of |-> src, w |-> w, h |-> h]

\* Variant of resizeBase that keeps the size of the source.
resizeBaseKeepingSize(img) == CatmullRomScale(img, img.w, img.h)

\* resizedBase: the input scaled to BaseImageSize by BaseImageSize; rgba is
\* a copy of it (draw.Draw with draw.Src over all its bounds).
resizeBase(img) == CatmullRomScale(img, BaseImageSize, BaseImageSize)

\* resizedOverlay: the badge scaled to OverlaySize by OverlaySize.
resizeOverlay(img) == CatmullRomScale(img, OverlaySize, OverlaySize)

\* Variant of badgeOffset that anchors the badge at the top-left corner.
badgeOffsetTopLeft(bounds, overlayBounds) == [x |-> 0, y |-> 0]

\* offset: bounds.Max minus the size of the badge.
badgeOffset(bounds, overlayBounds) ==
    [x |-> bounds.w - overlayBounds.w, y |-> bounds.h - overlayBounds.h]

\* draw.Draw(dst, {offset, offset + size of src}, src, image.Point{}, draw.Over).
drawOver(dst, offset, src) ==
    [kind |-> "composite", base |-> dst, overlay |-> src, at |-> offset,
     w |-> dst.w, h |-> dst.h]

\* The pixel of an image at (x, y).  A scaled image's pixel is fixed by its
\* source and the two sizes; a composite's is the overlay's pixel over the
\* base's inside the rectangle drawn (clipped to the base), the base's
\* elsewhere.
ScaledPixel(img, x, y) == <<"pixel", img.of, img.w, img.h, x, y>>
PixelAt(img, x, y) ==
    IF img.kind = "composite"
    THEN IF /\ x \in img.at.x..(img.at.x + img.overlay.w - 1)
            /\ y \in img.at.y..(img.at.y + img.overlay.h - 1)
            /\ x \in 0..(img.w - 1) /\ y \in 0..(img.h - 1)
         THEN <<"over", ScaledPixel(img.overlay, x - img.at.x, y - img.at.y),
                ScaledPixel(img.base, x, y)>>
         ELSE ScaledPixel(img.base, x, y)
    ELSE ScaledPixel(img, x, y)

\* What processUninstallIcon comes to: a result and an error, or a panic.
IconReturned(result, err) == [result |-> result, err |-> err, panicked |-> FALSE]
IconPanicked == [result |-> Nil, err |-> NoError, panicked |-> TRUE]

\* The body overlayOnce runs: the values it leaves in overlayImage and
\* overlayErr.
decodeOverlay(text) ==
    LET decoded == base64Decode(text)
    IN  IF ~decoded.ok
        THEN [image |-> Nil, err |-> Errorf("error decoding overlay image")]
        ELSE LET img == imageDecode(decoded.bytes)
             IN  IF ~img.ok
                 THEN [image |-> Nil, err |-> Errorf("error decoding overlay image bytes")]
                 ELSE [image |-> Ptr(img.image), err |-> NoError]

\* processUninstallIcon up to getOverlayImage: decode the text, decode the
\* bytes, resize; steps are the steps gone through.
prepareBase(baseImageB64) ==
    LET decoded == base64Decode(baseImageB64)
    IN  IF ~decoded.ok
        THEN [ok |-> FALSE, err |-> Errorf("error decoding base image"),
              steps |-> <<"base64">>]
        ELSE LET img == imageDecode(decoded.bytes)
             IN  IF ~img.ok
                 THEN [ok |-> FALSE, err |-> Errorf("error decoding base image bytes"),
                       steps |-> <<"base64", "image">>]
                 ELSE [ok |-> TRUE, rgba |-> resizeBase(img.image),
                       steps |-> <<"base64", "image", "resize">>]

\* processUninstallIcon from getOverlayImage's return on: got is the
\* (image, error) it returned.  A nil image with a nil error makes
\* overlayImg.Bounds() panic.
compositeBadge(rgba, got) ==
    IF got.err # NoError THEN IconReturned(Nil, got.err)
    ELSE IF got.image = Nil THEN IconPanicked
    ELSE LET resizedOverlay == resizeOverlay(Deref(got.image))
             out == drawOver(rgba, badgeOffset(rgba, resizedOverlay), resizedOverlay)
         IN  IconReturned(Ptr(base64Encode(pngEncode(out))), NoError)

\* processUninstallIcon(baseImageB64), run alone from start to end.
processUninstallIcon(baseImageB64) ==
    LET base == prepareBase(baseImageB64)
    IN  IF ~base.ok THEN IconReturned(Nil, base.err)
        ELSE compositeBadge(base.rgba, decodeOverlay(OverlayImageBase64))

\* The icons of the titles: a text that is no base64, the base64 of bytes
\* that are no image, and PNGs smaller than the base size and square, and
\* larger and not square.
IconInputs ==
    { NotBase64, Base64Text(NotAnImage),
      Base64Text(PNGBytes(DecodedImage("small", 16, 16))),
      Base64Text(PNGBytes(DecodedImage("wide", 1024, 300))) }

----------------------------------------------------------------------------
(* The titles data source *)

\* The title_names attribute of a configuration: null (not given), unknown,
\* or a list of names.
NameLists == SeqsUpTo(RequestNames, MaxNames)
TitleNamesValues ==
    {[kind |-> k, elems |-> <<>>] : k \in {"null", "unknown"}}
    \cup {[kind |-> "known", elems |-> n] : n \in NameLists}

\* types.StringPointerValue
StringPointerValue(p) ==
    IF p = Nil THEN [null |-> TRUE, value |-> ""] ELSE [null |-> FALSE, value |-> Deref(p)]

\* The TitleModel Read assembles for a title.
titleModel(title) ==
    [TitleName |-> StringPointerValue(title.TitleName),
     TitleVersion |-> StringPointerValue(title.TitleVersion)]

Diagnostic(summary, detail) == [summary |-> summary, detail |-> detail]

\* What a Read has done: not run, waiting for GetTitles, or done with its
\* diagnostics and the state it set (stateSet: resp.State.Set was called).
ReadResponse(phase, names, diags, stateSet, titles) ==
    [phase |-> phase, title_names |-> names, diags |-> diags, stateSet |-> stateSet,
     Titles |-> titles]
NoRead == ReadResponse("none", [kind |-> "null", elems |-> <<>>], <<>>, FALSE, <<>>)

\* var titleNames []string; filled by ElementsAs unless the attribute is null.
readTitleNames(tn) == IF tn.kind = "null" THEN <<>> ELSE tn.elems

\* Variant of returnsEmpty that returns early for a null attribute only.
returnsEmptyOnlyNull(tn, names) == tn.kind = "null" /\ Len(names) = 0

\* !data.TitleNames.IsUnknown() && len(titleNames) == 0: Read sets an empty
\* titles list and returns.
returnsEmpty(tn, names) == tn.kind # "unknown" /\ Len(names) = 0

\* Variant of readAfterGetTitles that reports every failure of GetTitles
\* the same way.
readAfterGetTitlesOneDiagnostic(tn, ret) ==
    IF ret.err # NoError
    THEN ReadResponse("done", tn,
             <<Diagnostic("Unable to read Jamf Auto Update titles",
                          IF ret.err.type = "TitlesNotFoundError"
                          THEN "titles not found: " \o Join(ret.err.MissingTitles, ", ")
                          ELSE ret.err.msg)>>,
             FALSE, <<>>)
    ELSE ReadResponse("done", tn, <<>>, TRUE,
                      [i \in 1..Len(ret.titles) |-> titleModel(ret.titles[i])])

\* Read from the return of GetTitles on.
readAfterGetTitles(tn, ret) ==
    IF ret.err # NoError
    THEN IF ret.err.type = "TitlesNotFoundError"
         THEN ReadResponse("done", tn,
                  <<Diagnostic("Requested titles not found",
                               "The following titles do not exist: "
                                   \o Join(ret.err.MissingTitles, ", "))>>,
                  FALSE, <<>>)
         ELSE ReadResponse("done", tn,
                  <<Diagnostic("Unable to read Jamf Auto Update titles", ret.err.msg)>>,
                  FALSE, <<>>)
    ELSE ReadResponse("done", tn, <<>>, TRUE,
                      [i \in 1..Len(ret.titles) |-> titleModel(ret.titles[i])])

----------------------------------------------------------------------------
(* The bundle ID of a title record *)

\* A client.Requirement: Name and Value are *string.
Requirement(name, value) == [Name |-> name, Value |-> value]

\* The names and values of the requirements: null, the bundle ID's name, the
\* same in another case, and another requirement's.
RequirementNames ==
    {Nil, Ptr("Application Bundle ID"), Ptr("application bundle id"), Ptr("OS Version")}
RequirementValues == {Nil, Ptr("com.a"), Ptr("com.b")}
Requirements ==
    {Requirement(n, v) : n \in RequirementNames, v \in RequirementValues}

\* What the search for the bundle ID comes to: a *string, or a panic.
BundleID(bundleID) == [bundleID |-> bundleID, panicked |-> FALSE]
NilDereference == [bundleID |-> Nil, panicked |-> TRUE]

RECURSIVE extractBundleID(_)
\* extractBundleID(requirements): a nil and an empty slice are both the
\* empty sequence, the loop runs over neither.
extractBundleID(requirements) ==
    IF requirements = <<>> THEN BundleID(Nil)
    ELSE LET req == Head(requirements)
         IN  IF req.Name # Nil /\ Deref(req.Name) = "Application Bundle ID"
             THEN BundleID(req.Value)
             ELSE extractBundleID(Tail(requirements))

RECURSIVE readBundleID(_)
\* The loop of TitlesDataSource.Read: *req.Name is read whatever req.Name
\* is, and the read of a nil pointer panics.
readBundleID(requirements) ==
    IF requirements = <<>> THEN BundleID(Nil)
    ELSE LET req == Head(requirements)
         IN  IF req.Name = Nil THEN NilDereference
             ELSE IF Deref(req.Name) = "Application Bundle ID"
             THEN BundleID(req.Value)
             ELSE readBundleID(Tail(requirements))

----------------------------------------------------------------------------
(* buildTitleModelsFromResponse and the loop of Read it replaces *)

\* A client.Title with the fields the assembly derives from: the icon and
\* the requirements of the patch definition.
Title(name, version, icon, requirements) ==
    [TitleName |-> name, TitleVersion |-> version, IconHiRes |-> icon,
     Requirements |-> requirements]

\* The titles of a batch: with and without a name, a version, an icon (one
\* that processes, one that does not) and a bundle ID, or with a
\* requirement that has no name.
BatchTitles ==
    {Title(name, version, icon, requirements) :
        name \in {Nil, Ptr("AppA"), Ptr("AppB")},
        version \in {Nil, Ptr("1.0")},
        icon \in {Nil, Ptr(NotBase64),
                  Ptr(Base64Text(PNGBytes(DecodedImage("small", 16, 16))))},
        requirements \in {<<>>, <<Requirement(Ptr("Application Bundle ID"), Ptr("com.a"))>>,
                          <<Requirement(Nil, Ptr("x"))>>}}

\* TitleModel{...}: every field through types.StringPointerValue.
TitleModel(title, bundleID, uninstallIcon) ==
    [TitleName |-> StringPointerValue(title.TitleName),
     TitleVersion |-> StringPointerValue(title.TitleVersion),
     IconBase64 |-> StringPointerValue(title.IconHiRes),
     UninstallIconBase64 |-> StringPointerValue(uninstallIcon),
     AppBundleID |-> StringPointerValue(bundleID)]

\* What buildTitleModelsFromResponse returns: ([]TitleModel, error).
Built(models, err) == [models |-> models, err |-> err]

\* if title.IconHiRes != nil { uninstallIcon, err = processUninstallIcon(...) }
uninstallIconOf(title) ==
    IF title.IconHiRes = Nil THEN IconReturned(Nil, NoError)
    ELSE processUninstallIcon(Deref(title.IconHiRes))

RECURSIVE buildSkippingFailedIcons(_, _)
\* Variant of buildFrom that leaves out the titles whose icon fails.
buildSkippingFailedIcons(titles, models) ==
    IF titles = <<>> THEN Built(models, NoError)
    ELSE LET title == Head(titles)
             icon == uninstallIconOf(title)
         IN  IF icon.err # NoError THEN buildSkippingFailedIcons(Tail(titles), models)
             ELSE buildSkippingFailedIcons(Tail(titles),
                      Append(models,
                             TitleModel(title,
                                        extractBundleID(title.Requirements).bundleID,
                                        icon.result)))

RECURSIVE buildKeepingIconsOnly(_, _)
\* Variant of buildFrom that appends a model for the titles with an icon only.
buildKeepingIconsOnly(titles, models) ==
    IF titles = <<>> THEN Built(models, NoError)
    ELSE LET title == Head(titles)
             icon == uninstallIconOf(title)
         IN  IF icon.err # NoError THEN Built(<<>>, icon.err)
             ELSE buildKeepingIconsOnly(Tail(titles),
                      IF title.IconHiRes = Nil THEN models
                      ELSE Append(models,
                                  TitleModel(title,
                                             extractBundleID(title.Requirements).bundleID,
                                             icon.result)))

RECURSIVE buildFrom(_, _)
\* The loop of buildTitleModelsFromResponse over the titles left, models
\* being those appended so far.
buildFrom(titles, models) ==
    IF titles = <<>> THEN Built(models, NoError)
    ELSE LET title == Head(titles)
             icon == uninstallIconOf(title)
         IN  IF icon.err # NoError THEN Built(<<>>, icon.err)
             ELSE buildFrom(Tail(titles),
                      Append(models,
                             TitleModel(title,
                                        extractBundleID(title.Requirements).bundleID,
                                        icon.result)))

\* buildTitleModelsFromResponse(titles)
buildTitleModelsFromResponse(titles) == buildFrom(titles, <<>>)

\* What the loop of Read comes to: the diagnostics, whether the state was
\* set and with which titles, or a panic.
ReadBuilt(diags, stateSet, models, panicked) ==
    [diags |-> diags, stateSet |-> stateSet, models |-> models, panicked |-> panicked]

RECURSIVE readBuildFrom(_, _)
\* The loop of TitlesDataSource.Read over the titles left, models being
\* data.Titles so far, and the resp.State.Set after it.
readBuildFrom(titles, models) ==
    IF titles = <<>> THEN ReadBuilt(<<>>, TRUE, models, FALSE)
    ELSE LET title == Head(titles)
             found == readBundleID(title.Requirements)
             icon == uninstallIconOf(title)
         IN  IF found.panicked THEN ReadBuilt(<<>>, FALSE, <<>>, TRUE)
             ELSE IF icon.err # NoError
             THEN ReadBuilt(<<Diagnostic("Error processing icon",
                                         "Could not process icon: " \o icon.err.msg)>>,
                            FALSE, <<>>, FALSE)
             ELSE readBuildFrom(Tail(titles),
                                Append(models, TitleModel(title, found.bundleID, icon.result)))

----------------------------------------------------------------------------
(* State *)

VARIABLES
    client,         \* the *client.Client in use (NoClient before construction)
    providerDiags,  \* diagnostics of the provider's Configure
    source,         \* the definitions source: the content of the file, or
                    \* the array the endpoint serves from
    pc,             \* "idle"; "inflight": GetTitles waits in httpClient.Do;
                    \* "done": the handler has returned to its caller
    caller,         \* who called GetTitles: "none", "direct" or "Read"
    titleNames,     \* the names of the current (or last) GetTitles call
    requests,       \* the HTTP requests that call has sent
    response,       \* what the transport answered
    result,         \* what the call returned
    events,         \* the events of the call, in order
    readResp,       \* the data source's Read: its diagnostics and state
    ctx,            \* the context of the call: "live" or "cancelled"
    overlay,        \* overlayOnce, overlayImage and overlayErr of package titles
    goroutines,     \* the goroutines that process icons or get titles side by side
    assembly        \* a title record being assembled: its requirements, the bundle ID

\* The variables of the client and the data source, and those of the other
\* parts of the provider.
clientVars == <<client, providerDiags, source, pc, caller, titleNames, requests, response,
                result, events, readResp, ctx>>
otherVars == <<overlay, goroutines, assembly>>
vars == <<clientVars, otherVars>>

NoResult == [done |-> FALSE, titles |-> <<>>, err |-> NoError]
\* What httpClient.Do gave back: nothing yet, an error, or a response with
\* its status and body; readOK is whether the body can be read to its end,
\* closeOK whether its Close succeeds.
NoResponse ==
    [arrived |-> "none", status |-> 0, body |-> ScalarDoc("null"), serves |-> "all",
     readOK |-> TRUE, closeOK |-> TRUE]
TransportError == [NoResponse EXCEPT !.arrived = "error"]
Response(status, body, serves, readOK, closeOK) ==
    [arrived |-> "response", status |-> status, body |-> body, serves |-> serves,
     readOK |-> readOK, closeOK |-> closeOK]

\* The goroutines that call into the provider side by side.
NumGoroutines == 2
Goroutines == 1..NumGoroutines

\* overlayOnce before its first Do (done is its flag, mutex the goroutine
\* holding its lock or 0), overlayImage and overlayErr at their zero values;
\* runs counts the runs of the function handed to Do.
NoOverlay == [done |-> FALSE, mutex |-> 0, image |-> Nil, err |-> NoError, runs |-> 0]

\* A goroutine that has called nothing: op is the call it makes, input and
\* names the call's arguments, rgba, got and resp the call's locals, steps
\* the steps of processUninstallIcon gone through, ret what the call
\* returned.
IdleGoroutine ==
    [op |-> "none", pc |-> "idle", input |-> NotBase64, names |-> <<>>, rgba |-> Nil,
     got |-> Nil, resp |-> NoResponse, steps |-> <<>>, ret |-> Nil]
NoGoroutines == [g \in Goroutines |-> IdleGoroutine]

\* The requirements a title carries at most.
MaxRequirements == 2

\* No title record is being assembled: phase is "none", "input" when the
\* title has come in, "assembled" when its bundle ID has been looked for by
\* via.
NoAssembly ==
    [phase |-> "none", requirements |-> <<>>, via |-> "none", found |-> BundleID(Nil)]

DefinitionsURLs == {"", "https://example.com"}
DefinitionsFiles == {"", "/tmp/titles.json"}

\* The clients tests and other callers build with NewClient: network mode,
\* file mode, both arguments set, and a base URL that does not parse.
DirectClients ==
    { NewClient("https://example.com", ""), NewClient("", "/tmp/titles.json"),
      NewClient("https://example.com", "/tmp/titles.json"), NewClient(":bad", "") }

Init ==
    /\ client = NoClient
    /\ providerDiags = <<>>
    /\ source = ArrayDoc(<<>>, TRUE)
    /\ pc = "idle"
    /\ caller = "none"
    /\ titleNames = <<>>
    /\ requests = <<>>
    /\ response = NoResponse
    /\ result = NoResult
    /\ events = <<>>
    /\ readResp = NoRead
    /\ ctx = "live"
    /\ overlay = NoOverlay
    /\ goroutines = NoGoroutines
    /\ assembly = NoAssembly

----------------------------------------------------------------------------
(* Construction *)

\* Variant of Configure that rejects a configuration only when neither
\* definitions_url nor definitions_file is set.
ConfigureEitherSet(cfgURL, cfgFile, envURL, envFile) ==
    LET definitionsURL == IF cfgURL = "" THEN envURL ELSE cfgURL
        definitionsFile == IF cfgFile = "" THEN envFile ELSE cfgFile
        urlSet == definitionsURL # ""
        fileSet == definitionsFile # ""
        clientObj == IF urlSet THEN NewClient(definitionsURL, "")
                     ELSE NewClient("", definitionsFile)
    IN  /\ ~client.made
        /\ providerDiags = <<>>
        /\ IF ~urlSet /\ ~fileSet
           THEN /\ providerDiags' =
                       <<Diagnostic("Invalid provider configuration",
                                    "Exactly one of definitions_url or definitions_file must be set.")>>
                /\ client' = client
           ELSE /\ client' = SetLogger(clientObj)
                /\ providerDiags' = providerDiags
        /\ UNCHANGED <<source, pc, caller, titleNames, requests, response, result, events,
                       readResp, ctx, otherVars>>

\* JamfAutoUpdateProvider.Configure: the attributes fall back to the
\* environment variables; exactly one of the two must be set.
Configure(cfgURL, cfgFile, envURL, envFile) ==
    LET definitionsURL == IF cfgURL = "" THEN envURL ELSE cfgURL
        definitionsFile == IF cfgFile = "" THEN envFile ELSE cfgFile
        urlSet == definitionsURL # ""
        fileSet == definitionsFile # ""
        clientObj == IF urlSet THEN NewClient(definitionsURL, "")
                     ELSE NewClient("", definitionsFile)
    IN  /\ ~client.made
        /\ providerDiags = <<>>
        /\ IF urlSet = fileSet
           THEN /\ providerDiags' =
                       <<Diagnostic("Invalid provider configuration",
                                    "Exactly one of definitions_url or definitions_file must be set.")>>
                /\ client' = client
           ELSE /\ client' = SetLogger(clientObj)
                /\ providerDiags' = providerDiags
        /\ UNCHANGED <<source, pc, caller, titleNames, requests, response, result, events,
                       readResp, ctx, otherVars>>

\* A caller of the package builds a client itself.
CallNewClient(c) ==
    /\ ~client.made
    /\ providerDiags = <<>>
    /\ client' = c
    /\ UNCHANGED <<providerDiags, source, pc, caller, titleNames, requests, response, result,
                   events, readResp, ctx, otherVars>>

\* A caller of the package attaches a logger to the client they built.
CallSetLogger ==
    /\ pc = "idle"
    /\ client.made
    /\ ~client.logger
    /\ client' = SetLogger(client)
    /\ UNCHANGED <<providerDiags, source, pc, caller, titleNames, requests, response, result,
                   events, readResp, ctx, otherVars>>

----------------------------------------------------------------------------
(* The definitions source changes *)

\* The documents one write away from doc: another top-level value, an empty
\* array, one more element, or the closing bracket cut off or put back.
NextDocs(doc) ==
    {ScalarDoc(t) : t \in {"null", "other", "malformed"}}
    \cup {ArrayDoc(<<>>, TRUE)}
    \cup IF doc.top # "array" THEN {}
         ELSE {ArrayDoc(doc.elems, ~doc.closed)}
              \cup IF Len(doc.elems) >= MaxTitles THEN {}
                   ELSE {ArrayDoc(Append(doc.elems, e), doc.closed) : e \in JSONElements}

\* The source is rewritten, between two calls or while a request is in
\* flight.
WriteSource(doc) ==
    /\ pc \in {"idle", "inflight"}
    /\ doc # source
    /\ source' = doc
    /\ UNCHANGED <<client, providerDiags, pc, caller, titleNames, requests, response, result,
                   events, readResp, ctx, otherVars>>

\* The caller's context is cancelled or runs out of time, before a call or
\* while its request is in flight.
CancelContext ==
    /\ client.made
    /\ pc \in {"idle", "inflight"}
    /\ ctx = "live"
    /\ ctx' = "cancelled"
    /\ UNCHANGED <<client, providerDiags, source, pc, caller, titleNames, requests, response,
                   result, events, readResp, otherVars>>

----------------------------------------------------------------------------
(* GetTitles *)

\* GetTitles returns ret to who called it; evs are the events before ret's.
\* Read, when it is the caller, runs on to its end.
Completed(who, tn, evs, ret) ==
    /\ pc' = "done"
    /\ result' = [done |-> TRUE, titles |-> ret.titles, err |-> ret.err]
    /\ events' = evs \o ret.events
    /\ readResp' = IF who = "Read" THEN readAfterGetTitles(tn, ret) ELSE NoRead

\* Client.GetTitles(ctx, titleNames...), called by who (tn is Read's
\* title_names).  File mode runs to its end, closeOK being whether the
\* file's Close succeeds; network mode runs up to the request being sent.
GetTitles(who, tn, names, closeOK) ==
    /\ pc = "idle"
    /\ client.made
    /\ caller' = who
    /\ titleNames' = names
    /\ UNCHANGED <<client, providerDiags, source, ctx, otherVars>>
    /\ IF client.definitionsFile # ""
       THEN /\ \E openOK \in BOOLEAN, mapOrder \in MapOrders :
                   Completed(who, tn, <<>>,
                             getTitlesFromFile(client, names, source, openOK, mapOrder,
                                               closeOK))
            /\ requests' = <<>>
            /\ response' = NoResponse
       ELSE LET url == requestURL(client.baseURL, names)
            IN  IF newRequestFails(url)
                THEN /\ Completed(who, tn, <<>>,
                                  Returned(<<>>, Errorf("error creating request"), <<>>))
                     /\ requests' = <<>>
                     /\ response' = NoResponse
                ELSE /\ pc' = "inflight"
                     /\ requests' = Do(newRequest(url))
                     /\ events' = IF client.logger
                                  THEN <<LogRequestEvent(newRequest(url).method, url)>>
                                  ELSE <<>>
                     /\ response' = NoResponse
                     /\ result' = NoResult
                     /\ readResp' = IF who = "Read"
                                    THEN ReadResponse("waiting", tn, <<>>, FALSE, <<>>)
                                    ELSE NoRead

\* A caller of the package calls GetTitles.
CallGetTitles(names, closeOK) ==
    GetTitles("direct", [kind |-> "null", elems |-> <<>>], names, closeOK)

\* httpClient.Do fails: no connection, a timeout, a cancelled context.
TransportFails ==
    /\ pc = "inflight"
    /\ response' = TransportError
    /\ Completed(caller, readResp.title_names, events,
                 Returned(<<>>, Errorf("error making request"), <<>>))
    /\ UNCHANGED <<client, providerDiags, source, caller, titleNames, requests, ctx,
                   otherVars>>

\* httpClient.Do returns a response, and GetTitles runs to its end.
Respond(status, serves, readOK, closeOK) ==
    /\ pc = "inflight"
    /\ doHonoursContext(ctx)
    /\ LET resp == Response(status, servedBody(serves, source, titleNames), serves,
                            readOK, closeOK)
       IN  /\ response' = resp
           /\ Completed(caller, readResp.title_names, events,
                        handleResponse(client, titleNames, resp))
    /\ UNCHANGED <<client, providerDiags, source, caller, titleNames, requests, ctx,
                   otherVars>>

----------------------------------------------------------------------------
(* TitlesDataSource.Read *)

\* Read(ctx, req, resp) with title_names tn; closeOK as for GetTitles.
Read(tn, closeOK) ==
    /\ pc = "idle"
    /\ client.made
    /\ IF tn.kind = "unknown"
       THEN \* ElementsAs cannot put an unknown list into a []string
            /\ readResp' = ReadResponse("done", tn,
                               <<Diagnostic("Value Conversion Error", "unhandled unknown value")>>,
                               FALSE, <<>>)
            /\ pc' = "done"
            /\ UNCHANGED <<client, providerDiags, source, caller, titleNames, requests,
                           response, result, events, ctx, otherVars>>
       ELSE IF returnsEmpty(tn, readTitleNames(tn))
       THEN /\ readResp' = ReadResponse("done", tn, <<>>, TRUE, <<>>)
            /\ pc' = "done"
            /\ UNCHANGED <<client, providerDiags, source, caller, titleNames, requests,
                           response, result, events, ctx, otherVars>>
       ELSE GetTitles("Read", tn, readTitleNames(tn), closeOK)

\* The caller has taken what the handler returned; nothing of the call is
\* kept.
Consume ==
    /\ pc = "done"
    /\ pc' = "idle"
    /\ caller' = "none"
    /\ titleNames' = <<>>
    /\ requests' = <<>>
    /\ response' = NoResponse
    /\ result' = NoResult
    /\ events' = <<>>
    /\ readResp' = NoRead
    /\ ctx' = "live"
    /\ UNCHANGED <<client, providerDiags, source, otherVars>>

----------------------------------------------------------------------------

\* The client and the data source, every body readable and every Close
\* succeeding, no context cancelled.
Next ==
    \/ \E cfgURL, envURL \in DefinitionsURLs, cfgFile, envFile \in DefinitionsFiles :
           Configure(cfgURL, cfgFile, envURL, envFile)
    \/ \E c \in DirectClients : CallNewClient(c)
    \/ \E doc \in NextDocs(source) : WriteSource(doc)
    \/ \E names \in NameLists : CallGetTitles(names, TRUE)
    \/ TransportFails
    \/ \E status \in StatusCodes, serves \in Serves : Respond(status, serves, TRUE, TRUE)
    \/ \E tn \in TitleNamesValues : Read(tn, TRUE)
    \/ Consume

Spec == Init /\ [][Next]_vars

\* The sources of the runs with failures: no array, an array cut off, an
\* element that is no title, one title, a title after a record without a
\* name, and a name that comes twice, with a record without a name between
\* and another title behind.
FaultDocs ==
    { ScalarDoc("null"), ScalarDoc("malformed"), ArrayDoc(<<>>, FALSE),
      ArrayDoc(<<BadElement>>, TRUE),
      ArrayDoc(<<TitleObject(JString("AppA"), JString("1.0"))>>, TRUE),
      ArrayDoc(<<TitleObject(JNull, JString("1.0")),
                 TitleObject(JString("AppB"), JString("1.0"))>>, TRUE),
      ArrayDoc(<<TitleObject(JString("AppA"), JString("1.0")),
                 TitleObject(JNull, JString("1.0")),
                 TitleObject(JString("AppA"), JString("2.0")),
                 TitleObject(JString("AppB"), JString("1.0"))>>, TRUE) }

\* The same, with contexts that are cancelled, bodies that cannot be read
\* and closes that fail.
NextWithFaults ==
    \/ \E cfgURL, envURL \in DefinitionsURLs, cfgFile, envFile \in DefinitionsFiles :
           Configure(cfgURL, cfgFile, envURL, envFile)
    \/ \E c \in DirectClients : CallNewClient(c)
    \/ CallSetLogger
    \/ \E doc \in FaultDocs : WriteSource(doc)
    \/ \E names \in NameLists, closeOK \in BOOLEAN : CallGetTitles(names, closeOK)
    \/ CancelContext
    \/ TransportFails
    \/ \E status \in StatusCodes, serves \in Serves, readOK, closeOK \in BOOLEAN :
           Respond(status, serves, readOK, closeOK)
    \/ \E tn \in TitleNamesValues, closeOK \in BOOLEAN : Read(tn, closeOK)
    \/ Consume

FaultSpec == Init /\ [][NextWithFaults]_vars

----------------------------------------------------------------------------
(* Calls side by side: processUninstallIcon, getOverlayImage, GetTitles *)

\* What the other goroutines do not touch.
ConcUnchanged == UNCHANGED <<clientVars, assembly>>

\* Variant of onceDone that takes a Do in progress for a finished one.
onceStarted(o) == o.done \/ o.mutex # 0

\* sync.Once: o.done.Load() is set.
onceDone(o) == o.done

\* Variant of lockFree under which the lock excludes nobody.
lockIgnored(o) == TRUE

\* sync.Once: o.m.Lock() can be taken.
lockFree(o) == o.mutex = 0

\* Variant of localResp under which resp is one slot for all the calls: the
\* response of the first goroutine that holds one.
sharedResp(gs, g) ==
    gs[CHOOSE h \in DOMAIN gs :
          /\ gs[h].resp.arrived = "response"
          /\ \A k \in DOMAIN gs : gs[k].resp.arrived = "response" => h <= k].resp

\* resp, a local of the GetTitles call on goroutine g.
localResp(gs, g) == gs[g].resp

\* Variant of titlesReturned under which the client keeps what it returned
\* for a list of names and returns it again to a later call with that list.
titlesCached(gs, g, names, ret) ==
    LET earlier == {h \in DOMAIN gs : /\ h # g
                                      /\ gs[h].pc = "returned"
                                      /\ gs[h].op = "titles"
                                      /\ gs[h].names = names}
    IN  IF earlier = {} THEN [titles |-> ret.titles, err |-> ret.err]
        ELSE gs[CHOOSE h \in earlier : TRUE].ret

\* What the GetTitles call on goroutine g returns to its caller: the titles
\* and the error it has come to, ret.
titlesReturned(gs, g, names, ret) == [titles |-> ret.titles, err |-> ret.err]

\* processUninstallIcon(baseImageB64) on goroutine g, up to its call of
\* getOverlayImage; an input that does not decode returns here.
StartIcon(g, baseImageB64) ==
    /\ goroutines[g].pc = "idle"
    /\ LET base == prepareBase(baseImageB64)
       IN  goroutines' =
             [goroutines EXCEPT ![g] =
                IF base.ok
                THEN [@ EXCEPT !.op = "icon", !.input = baseImageB64, !.pc = "once",
                               !.rgba = Ptr(base.rgba), !.steps = base.steps]
                ELSE [@ EXCEPT !.op = "icon", !.input = baseImageB64, !.pc = "returned",
                               !.steps = base.steps,
                               !.ret = IconReturned(Nil, base.err)]]
    /\ UNCHANGED overlay
    /\ ConcUnchanged

\* overlayOnce.Do, fast path: done is set, Do returns at once.
OnceFast(g) ==
    /\ goroutines[g].pc = "once"
    /\ onceDone(overlay)
    /\ goroutines' = [goroutines EXCEPT ![g].pc = "read",
                                        ![g].steps = @ \o <<"getOverlayImage">>]
    /\ UNCHANGED overlay
    /\ ConcUnchanged

\* overlayOnce.Do: done is not set, on to doSlow.
OnceSlow(g) ==
    /\ goroutines[g].pc = "once"
    /\ ~onceDone(overlay)
    /\ goroutines' = [goroutines EXCEPT ![g].pc = "doSlow",
                                        ![g].steps = @ \o <<"getOverlayImage">>]
    /\ UNCHANGED overlay
    /\ ConcUnchanged

\* doSlow: take the lock, look at done again.
OnceLock(g) ==
    /\ goroutines[g].pc = "doSlow"
    /\ lockFree(overlay)
    /\ overlay' = [overlay EXCEPT !.mutex = g]
    /\ goroutines' = [goroutines EXCEPT ![g].pc = IF overlay.done THEN "unlock" ELSE "body"]
    /\ ConcUnchanged

\* The function handed to Do: decode the badge into overlayImage, overlayErr.
OverlayBody(g) ==
    /\ goroutines[g].pc = "body"
    /\ LET decoded == decodeOverlay(OverlayImageBase64)
       IN  overlay' = [overlay EXCEPT !.image = decoded.image, !.err = decoded.err,
                                      !.runs = @ + 1]
    /\ goroutines' = [goroutines EXCEPT ![g].pc = "store",
                                        ![g].steps = @ \o <<"decodeOverlay">>]
    /\ ConcUnchanged

\* doSlow's deferred o.done.Store(1).
OnceStore(g) ==
    /\ goroutines[g].pc = "store"
    /\ overlay' = [overlay EXCEPT !.done = TRUE]
    /\ goroutines' = [goroutines EXCEPT ![g].pc = "unlock"]
    /\ ConcUnchanged

\* doSlow's deferred o.m.Unlock().
OnceUnlock(g) ==
    /\ goroutines[g].pc = "unlock"
    /\ overlay' = [overlay EXCEPT !.mutex = 0]
    /\ goroutines' = [goroutines EXCEPT ![g].pc = "read"]
    /\ ConcUnchanged

\* getOverlayImage: return overlayImage, overlayErr.
ReturnOverlay(g) ==
    /\ goroutines[g].pc = "read"
    /\ goroutines' = [goroutines EXCEPT ![g].pc = "composite",
                                        ![g].got = [image |-> overlay.image,
                                                    err |-> overlay.err,
                                                    done |-> overlay.done]]
    /\ UNCHANGED overlay
    /\ ConcUnchanged

\* The rest of processUninstallIcon: scale the badge, draw it, encode.
Composite(g) ==
    /\ goroutines[g].pc = "composite"
    /\ LET out == compositeBadge(Deref(goroutines[g].rgba), goroutines[g].got)
       IN  goroutines' =
             [goroutines EXCEPT ![g].pc = "returned",
                                ![g].ret = out,
                                ![g].steps = IF out.err # NoError THEN @
                                             ELSE IF out.panicked THEN @ \o <<"badge">>
                                             ELSE @ \o <<"badge", "encode">>]
    /\ UNCHANGED overlay
    /\ ConcUnchanged

\* The names the calls side by side ask for.
ConcNames == {<<>>, <<"AppA">>, <<"AppB">>}

\* Client.GetTitles(ctx, names...) on goroutine g: file mode runs to its
\* end, network mode up to the request being sent.
StartTitles(g, names) ==
    /\ goroutines[g].pc = "idle"
    /\ client.made
    /\ IF client.definitionsFile # ""
       THEN \E mapOrder \in MapOrders :
               LET ret == getTitlesFromFile(client, names, source, TRUE, mapOrder, TRUE)
               IN  goroutines' =
                     [goroutines EXCEPT ![g] =
                        [@ EXCEPT !.op = "titles", !.names = names, !.pc = "returned",
                                  !.ret = titlesReturned(goroutines, g, names, ret)]]
       ELSE goroutines' =
              [goroutines EXCEPT ![g] =
                 [@ EXCEPT !.op = "titles", !.names = names, !.pc = "inflight"]]
    /\ UNCHANGED overlay
    /\ ConcUnchanged

\* httpClient.Do returns a response to the call on goroutine g.
Arrive(g, status) ==
    /\ goroutines[g].pc = "inflight"
    /\ goroutines' =
         [goroutines EXCEPT ![g].pc = "arrived",
                            ![g].resp = Response(status,
                                                 matchingRecords(source, goroutines[g].names),
                                                 "matching", TRUE, TRUE)]
    /\ UNCHANGED overlay
    /\ ConcUnchanged

\* The call on goroutine g handles its response and returns.
Handle(g) ==
    /\ goroutines[g].pc = "arrived"
    /\ LET ret == handleResponse(client, goroutines[g].names, localResp(goroutines, g))
       IN  goroutines' = [goroutines EXCEPT ![g].pc = "returned",
                                            ![g].ret = titlesReturned(goroutines, g,
                                                                      goroutines[g].names,
                                                                      ret)]
    /\ UNCHANGED overlay
    /\ ConcUnchanged

\* The client the goroutines share and the source it reads: two titles.
ConcClients == {NewClient("https://example.com", ""), NewClient("", "/tmp/titles.json")}
ConcSource ==
    ArrayDoc(<<TitleObject(JString("AppA"), JString("1.0")),
               TitleObject(JString("AppB"), JString("1.0"))>>, TRUE)

ConcInit ==
    /\ client \in ConcClients
    /\ providerDiags = <<>>
    /\ source = ConcSource
    /\ pc = "idle"
    /\ caller = "none"
    /\ titleNames = <<>>
    /\ requests = <<>>
    /\ response = NoResponse
    /\ result = NoResult
    /\ events = <<>>
    /\ readResp = NoRead
    /\ ctx = "live"
    /\ overlay = NoOverlay
    /\ goroutines = NoGoroutines
    /\ assembly = NoAssembly

ConcNext ==
    \E g \in Goroutines :
        \/ \E baseImageB64 \in IconInputs : StartIcon(g, baseImageB64)
        \/ OnceFast(g)
        \/ OnceSlow(g)
        \/ OnceLock(g)
        \/ OverlayBody(g)
        \/ OnceStore(g)
        \/ OnceUnlock(g)
        \/ ReturnOverlay(g)
        \/ Composite(g)
        \/ \E names \in ConcNames : StartTitles(g, names)
        \/ \E status \in {200, 404} : Arrive(g, status)
        \/ Handle(g)

ConcSpec == ConcInit /\ [][ConcNext]_vars

----------------------------------------------------------------------------
(* Calls one after another, the source changing between them *)

\* The contents the source goes through: the two titles, another version
\* of one of them alone, and no title.
SeqDocs ==
    { ConcSource,
      ArrayDoc(<<TitleObject(JString("AppA"), JString("2.0"))>>, TRUE),
      ArrayDoc(<<>>, TRUE) }

\* The file is rewritten, or the endpoint serves other titles.
ChangeSource(doc) ==
    /\ doc # source
    /\ source' = doc
    /\ UNCHANGED <<client, providerDiags, pc, caller, titleNames, requests, response,
                   result, events, readResp, ctx, otherVars>>

\* The names the calls ask for.
SeqNames == {<<>>, <<"AppA">>}

SeqNext ==
    \/ \E doc \in SeqDocs : ChangeSource(doc)
    \/ \E g \in Goroutines :
          \/ \E names \in SeqNames : StartTitles(g, names)
          \/ \E status \in {200, 404} : Arrive(g, status)
          \/ Handle(g)

SeqSpec == ConcInit /\ [][SeqNext]_vars

----------------------------------------------------------------------------
(* A title record is assembled *)

\* buildTitleModelsFromResponse looks for the bundle ID with extractBundleID.
ExtractBundleID ==
    /\ assembly.phase = "input"
    /\ assembly' = [assembly EXCEPT !.phase = "assembled", !.via = "extractBundleID",
                                    !.found = extractBundleID(assembly.requirements)]
    /\ UNCHANGED <<clientVars, overlay, goroutines>>

\* TitlesDataSource.Read looks for the bundle ID in its own loop.
ReadBundleID ==
    /\ assembly.phase = "input"
    /\ assembly' = [assembly EXCEPT !.phase = "assembled", !.via = "Read",
                                    !.found = readBundleID(assembly.requirements)]
    /\ UNCHANGED <<clientVars, overlay, goroutines>>

\* A title has come in, with any requirements.
AssembleInit ==
    /\ client = NoClient
    /\ providerDiags = <<>>
    /\ source = ArrayDoc(<<>>, TRUE)
    /\ pc = "idle"
    /\ caller = "none"
    /\ titleNames = <<>>
    /\ requests = <<>>
    /\ response = NoResponse
    /\ result = NoResult
    /\ events = <<>>
    /\ readResp = NoRead
    /\ ctx = "live"
    /\ overlay = NoOverlay
    /\ goroutines = NoGoroutines
    /\ \E requirements \in SeqsUpTo(Requirements, MaxRequirements) :
          assembly = [NoAssembly EXCEPT !.phase = "input", !.requirements = requirements]

AssembleNext == ExtractBundleID \/ ReadBundleID

AssembleSpec == AssembleInit /\ [][AssembleNext]_vars

----------------------------------------------------------------------------
(* A batch of titles is assembled *)

\* A batch that has come back from GetTitles and is not assembled yet.
BatchInput(titles) ==
    [phase |-> "input", titles |-> titles, via |-> "none",
     built |-> Built(<<>>, NoError), read |-> ReadBuilt(<<>>, FALSE, <<>>, FALSE)]

\* buildTitleModelsFromResponse runs on the batch.
BuildTitleModels ==
    /\ assembly.phase = "input"
    /\ assembly' = [assembly EXCEPT !.phase = "built",
                                    !.via = "buildTitleModelsFromResponse",
                                    !.built = buildTitleModelsFromResponse(assembly.titles)]
    /\ UNCHANGED <<clientVars, overlay, goroutines>>

\* The loop of TitlesDataSource.Read runs on the batch.
ReadBuildsModels ==
    /\ assembly.phase = "input"
    /\ assembly' = [assembly EXCEPT !.phase = "built", !.via = "Read",
                                    !.read = readBuildFrom(assembly.titles, <<>>)]
    /\ UNCHANGED <<clientVars, overlay, goroutines>>

BuildInit ==
    /\ client = NoClient
    /\ providerDiags = <<>>
    /\ source = ArrayDoc(<<>>, TRUE)
    /\ pc = "idle"
    /\ caller = "none"
    /\ titleNames = <<>>
    /\ requests = <<>>
    /\ response = NoResponse
    /\ result = NoResult
    /\ events = <<>>
    /\ readResp = NoRead
    /\ ctx = "live"
    /\ overlay = NoOverlay
    /\ goroutines = NoGoroutines
    /\ \E titles \in SeqsUpTo(BatchTitles, MaxTitles) : assembly = BatchInput(titles)

BuildNext == BuildTitleModels \/ ReadBuildsModels

BuildSpec == BuildInit /\ [][BuildNext]_vars

----------------------------------------------------------------------------
(* Vocabulary of the properties *)

\* A GetTitles call has returned to its caller.
CallReturned == pc = "done" /\ result.done

FileMode == client.made /\ client.definitionsFile # ""
NetworkMode == client.made /\ client.definitionsFile = ""

\* The names asked for, as a set.
Requested == {titleNames[i] : i \in 1..Len(titleNames)}

\* The non-null title names a document's records carry.
NamesIn(doc) ==
    {doc.elems[i].title_name[2] :
        i \in {j \in 1..Len(doc.elems) :
                  doc.elems[j].kind = "object" /\ doc.elems[j].title_name # JNull}}

\* The call got hold of the source: the file was opened, or the endpoint
\* answered 200.
FileOpened == \E i \in 1..Len(events) : events[i] = OpenEvent("definitions file")
Answered200 == response.arrived = "response" /\ response.status = 200
SourceReached == (FileMode /\ FileOpened) \/ (NetworkMode /\ Answered200)

\* The document the call read: the file, or the body of the response.
DocumentRead == IF FileMode THEN source ELSE response.body

\* How many of the returned titles carry the name n.
Returning(n) == Cardinality({i \in 1..Len(result.titles) : result.titles[i].TitleName = Ptr(n)})

Decoded(name) == \E i \in 1..Len(events) : events[i] = DecodeEvent(name)

----------------------------------------------------------------------------
(* Properties *)

\* C1: for every non-empty list of requested names that all exist in the
\* source (a well-formed array the call reached; in network mode the endpoint
\* serves the source's matching records), GetTitles returns no error and
\* exactly one record per requested name, and no other record.
C1_OneRecordPerRequestedName ==
    ( /\ CallReturned
      /\ Len(titleNames) > 0
      /\ WellFormedArray(source)
      /\ SourceReached
      /\ NetworkMode => response.serves = "matching"
      /\ Requested \subseteq NamesIn(source) )
    => /\ result.err = NoError
       /\ \A n \in Requested : Returning(n) = 1
       /\ Len(result.titles) = Cardinality(Requested)

\* C1, file mode alone: there the property holds.
C1_FileModeOneRecordPerName ==
    FileMode => C1_OneRecordPerRequestedName

C1_FileModeWitness ==
    /\ CallReturned /\ FileMode /\ FileOpened
    /\ titleNames = <<"AppA">>
    /\ WellFormedArray(source) /\ Len(source.elems) = 2
    /\ source.elems[1].title_name = JString("AppA")
    /\ source.elems[2].title_name = JString("AppA")
    /\ Len(result.titles) = 1

\* C2: when a requested name is absent from the source (a well-formed array
\* the call reached), GetTitles returns a TitlesNotFoundError and no
\* records, and the names of MissingTitles are exactly the requested names
\* that no record with a non-null name carries.
C2_MissingTitlesExact ==
    ( /\ CallReturned
      /\ WellFormedArray(source)
      /\ SourceReached
      /\ Requested \ NamesIn(source) # {} )
    => /\ result.err.type = "TitlesNotFoundError"
       /\ result.titles = <<>>
       /\ {result.err.MissingTitles[i] : i \in 1..Len(result.err.MissingTitles)}
              = Requested \ NamesIn(source)

\* A network call asked for "appa" and "AppA" of a source that holds AppA
\* and a record with a null name: only "appa" is missing.
C2_Witness ==
    /\ CallReturned /\ NetworkMode /\ Answered200
    /\ titleNames = <<"appa", "AppA">>
    /\ WellFormedArray(source)
    /\ "AppA" \in NamesIn(source)
    /\ \E i \in 1..Len(source.elems) : source.elems[i].title_name = JNull
    /\ result.err = TitlesNotFoundError(<<"appa">>)

\* C3: GetTitles with no names returns the whole source (a well-formed array
\* the call reached), every record in source order, those with a null name
\* included; and with no names it never returns a TitlesNotFoundError.
C3_NoNamesReturnsAll ==
    (CallReturned /\ Len(titleNames) = 0)
    => /\ result.err.type # "TitlesNotFoundError"
       /\ (WellFormedArray(source) /\ SourceReached)
          => /\ result.err = NoError
             /\ Len(result.titles) = Len(source.elems)
             /\ \A i \in 1..Len(source.elems) :
                   /\ source.elems[i].title_name = JNull
                         => result.titles[i].TitleName = Nil
                   /\ source.elems[i].title_name # JNull
                         => result.titles[i].TitleName = Ptr(source.elems[i].title_name[2])
                   /\ result.titles[i].TitleVersion = Ptr(source.elems[i].title_version[2])

\* A call with no names returned a record with a null name, after AppA.
C3_Witness ==
    /\ CallReturned /\ Len(titleNames) = 0 /\ SourceReached
    /\ WellFormedArray(source)
    /\ Len(result.titles) = 2
    /\ result.titles[1].TitleName = Ptr("AppA")
    /\ result.titles[2].TitleName = Nil

\* C4: a Read whose title_names is null (the attribute left out) returns all
\* the titles of the source: it reports an error or sets a state that holds
\* one title per record of the source.
C4_ReadNullReturnsAllTitles ==
    ( /\ readResp.phase = "done"
      /\ readResp.title_names.kind = "null"
      /\ WellFormedArray(source) )
    => \/ readResp.diags # <<>>
       \/ readResp.stateSet /\ Len(readResp.Titles) = Len(source.elems)

\* C5: a Read whose title_names is an explicit empty list sets a state with
\* zero titles and no diagnostic, and never calls GetTitles: no request is
\* sent, no file is opened, nothing is logged.
C5_ReadEmptyListSkipsGetTitles ==
    ( /\ readResp.phase = "done"
      /\ readResp.title_names = [kind |-> "known", elems |-> <<>>] )
    => /\ readResp.stateSet
       /\ readResp.Titles = <<>>
       /\ readResp.diags = <<>>
       /\ ~result.done
       /\ caller = "none"
       /\ requests = <<>>
       /\ events = <<>>

\* A Read with an empty list finished while the source held a title.
C5_Witness ==
    /\ readResp.phase = "done"
    /\ readResp.title_names = [kind |-> "known", elems |-> <<>>]
    /\ readResp.stateSet
    /\ WellFormedArray(source) /\ Len(source.elems) > 0

\* C6: for every source array and every list of names, a file-mode call
\* returns what a network-mode call returns from an endpoint that serves the
\* array's matching records: the same records in the same order when it
\* succeeds, an error of the same kind otherwise.
C6_ModesAgree ==
    ( /\ CallReturned
      /\ FileMode /\ FileOpened
      /\ WellFormedArray(source) )
    => LET served == Response(200, matchingRecords(source, titleNames), "matching",
                              TRUE, TRUE)
           network == handleResponse(client, titleNames, served)
       IN  /\ network.err.type = result.err.type
           /\ result.err = NoError => network.titles = result.titles

\* C7: a response whose status is not 200 makes GetTitles return an error
\* that carries the status code and no records; the body is not decoded, and
\* the error is no TitlesNotFoundError even when the body is a valid array
\* that lacks a requested name.
C7_Non200IsStatusError ==
    ( /\ CallReturned
      /\ response.arrived = "response"
      /\ response.status # 200 )
    => /\ result.err.type = "error"
       /\ result.err.msg = "API request failed with status code: " \o ToString(response.status)
       /\ result.titles = <<>>
       /\ ~Decoded("response body")

\* A 404 came with a well-formed array that lacks a requested name.
C7_Witness ==
    /\ CallReturned
    /\ response.arrived = "response" /\ response.status = 404
    /\ WellFormedArray(response.body)
    /\ Len(response.body.elems) > 0
    /\ Requested \ NamesIn(response.body) # {}
    /\ result.err.type = "error"

\* C8: a response body (status 200) or a definitions file that is not a
\* well-formed JSON array makes GetTitles return a decode error and no
\* records, with or without requested names, in both modes.
DecodeErrors ==
    {Errorf(m) : m \in {"error decoding response",
                        "error reading definitions file",
                        "definitions file must contain a JSON array of titles",
                        "error decoding definitions file"}}

C8_NotAnArrayIsDecodeError ==
    ( /\ CallReturned
      /\ SourceReached
      /\ ~WellFormedArray(DocumentRead) )
    => /\ result.err \in DecodeErrors
       /\ result.titles = <<>>

\* C9: the URL of a network request is the base URL when no names are
\* given, and otherwise the base URL, a slash, and the names separated by
\* commas in the caller's order: none moved, none dropped, duplicates kept.
\* A network call whose request could be built has sent that request.
CommaSeparated(names) ==
    LET upTo[k \in 0..Len(names)] ==
            IF k = 0 THEN ""
            ELSE IF k = 1 THEN names[1]
            ELSE upTo[k - 1] \o "," \o names[k]
    IN  upTo[Len(names)]

C9_RequestURL ==
    /\ requests # <<>> =>
          /\ NetworkMode
          /\ Len(titleNames) = 0 => requests[1].url = client.baseURL
          /\ Len(titleNames) > 0 =>
                requests[1].url = client.baseURL \o "/" \o CommaSeparated(titleNames)
    /\ (NetworkMode /\ pc = "inflight") => requests # <<>>

\* A request is on the wire for "AppB", "AppA": the names stay in the
\* caller's order, which is not the alphabetical one.
C9_Witness ==
    /\ pc = "inflight"
    /\ titleNames = <<"AppB", "AppA">>
    /\ requests # <<>>
    /\ requests[1].url = "https://example.com/AppB,AppA"

Configured == client.made /\ client.logger

\* Exactly one of two strings is non-empty.
ExactlyOne(a, b) == (a # "") # (b # "")

\* What a step of Configure with these values of the configuration and of
\* the environment has to do.
ConfigureAsSpecified(cfgURL, cfgFile, envURL, envFile) ==
    LET url == IF cfgURL # "" THEN cfgURL ELSE envURL
        file == IF cfgFile # "" THEN cfgFile ELSE envFile
    IN  IF ExactlyOne(url, file)
        THEN /\ client'.made
             /\ client'.baseURL = url /\ client'.definitionsFile = file
             /\ providerDiags' = <<>>
        ELSE /\ ~client'.made
             /\ Len(providerDiags') = 1
             /\ providerDiags'[1].detail =
                    "Exactly one of definitions_url or definitions_file must be set."

\* C22: Configure makes a client only when exactly one of definitions_url
\* and definitions_file is non-empty after the fallback to the environment
\* variables; with both or neither it reports "Exactly one of
\* definitions_url or definitions_file must be set." and makes no client;
\* so the client handed to the data source has exactly one of baseURL and
\* definitionsFile non-empty.
C22_ExactlyOneMode ==
    /\ [](Configured => ExactlyOne(client.baseURL, client.definitionsFile))
    /\ [](providerDiags # <<>> => ~client.made)
    /\ [][\A cfgURL, envURL \in DefinitionsURLs, cfgFile, envFile \in DefinitionsFiles :
             Configure(cfgURL, cfgFile, envURL, envFile)
             => ConfigureAsSpecified(cfgURL, cfgFile, envURL, envFile)]_vars

\* Configure has made a file-mode client and the data source has read
\* titles with it.
C22_Witness ==
    /\ Configured
    /\ client.definitionsFile # ""
    /\ readResp.phase = "done" /\ readResp.stateSet /\ Len(readResp.Titles) > 0

\* Read has called GetTitles and the call has failed.
ReadFailed == CallReturned /\ caller = "Read" /\ result.err # NoError

\* Names as a diagnostic lists them: separated by a comma and a space.
ListedNames(names) ==
    LET upTo[k \in 0..Len(names)] ==
            IF k = 0 THEN ""
            ELSE IF k = 1 THEN names[1]
            ELSE upTo[k - 1] \o ", " \o names[k]
    IN  upTo[Len(names)]

\* C23: when GetTitles fails with a TitlesNotFoundError, Read reports the
\* diagnostic "Requested titles not found", which lists exactly the missing
\* names; every other failure of GetTitles is reported as "Unable to read
\* Jamf Auto Update titles"; in both cases Read writes no state.
C23_ReadReportsFailure ==
    ReadFailed
    => /\ readResp.phase = "done"
       /\ ~readResp.stateSet
       /\ readResp.Titles = <<>>
       /\ Len(readResp.diags) = 1
       /\ IF result.err.type = "TitlesNotFoundError"
          THEN /\ readResp.diags[1].summary = "Requested titles not found"
               /\ readResp.diags[1].detail =
                      "The following titles do not exist: "
                          \o ListedNames(result.err.MissingTitles)
          ELSE readResp.diags[1].summary = "Unable to read Jamf Auto Update titles"

\* Read has asked for two names that are not in the source, and GetTitles
\* has failed with a TitlesNotFoundError that names both.
C23_Witness ==
    /\ ReadFailed
    /\ result.err.type = "TitlesNotFoundError"
    /\ Len(result.err.MissingTitles) = 2

\* A file-mode call has failed with a TitlesNotFoundError.
FileModeNotFound == CallReturned /\ FileMode /\ result.err.type = "TitlesNotFoundError"

\* The request lists that ask for the same names as the call did, in any
\* order and with any repetition.
SameNames ==
    {names \in NameLists : {names[i] : i \in 1..Len(names)} = Requested}

\* C24: in file mode the MissingTitles of a TitlesNotFoundError are in
\* ascending order and hold each missing name once, so the list is the same
\* for every ordering and every duplication of the same requested names
\* (and every iteration order of the map of wanted names).
C24_MissingTitlesSorted ==
    FileModeNotFound
    => LET missing == result.err.MissingTitles
       IN  /\ \A i, j \in 1..Len(missing) :
                 i < j => StringRank(missing[i]) < StringRank(missing[j])
           /\ \A names \in SameNames, mapOrder \in MapOrders :
                 getTitlesFromFile(client, names, source, TRUE, mapOrder, TRUE).err
                     = result.err

\* A file-mode call has asked for "appa" before "AppB", neither is in the
\* file, and they are reported as "AppB", "appa".
C24_Witness ==
    /\ FileModeNotFound
    /\ titleNames = <<"appa", "AppB">>
    /\ result.err.MissingTitles = <<"AppB", "appa">>

\* A file-mode call with names has returned, having read an array.
FileScanReturned ==
    /\ CallReturned /\ FileMode /\ FileOpened
    /\ titleNames # <<>>
    /\ source.top = "array"

\* The prefixes of the array that hold title objects only and carry every
\* requested name: the scan has found all it wants within them.
CompletePrefixes ==
    {k \in 1..Len(source.elems) :
        /\ \A i \in 1..k : source.elems[i].kind = "object"
        /\ Requested \subseteq NamesIn(ArrayDoc(SubSeq(source.elems, 1, k), TRUE))}

\* C26: in file mode with requested names the scan decodes the elements of
\* the array one at a time in file order and stops as soon as the set of
\* wanted names is empty: no element after the one that matched the last
\* wanted name is decoded or examined, so whatever follows it (an element
\* that is no title, a missing closing bracket) does not make the call fail.
C26_ScanStopsEarly ==
    (FileScanReturned /\ CompletePrefixes # {})
    => LET last == CHOOSE k \in CompletePrefixes : \A j \in CompletePrefixes : k <= j
           scan == scanElements(source.elems, 1, Requested, <<>>)
       IN  /\ scan.examined = last
           /\ scan.wanted = {}
           /\ result.err = NoError
           /\ \A i \in 1..Len(result.titles) :
                 \E j \in 1..last : result.titles[i] = decodeTitle(source.elems[j])

\* A file-mode call has asked for the name of the first element of a file
\* whose second element is no title, and has succeeded.
C26_Witness ==
    /\ FileScanReturned
    /\ Len(source.elems) = 2
    /\ source.elems[2] = BadElement
    /\ CompletePrefixes = {1}
    /\ result.err = NoError /\ Len(result.titles) = 1

----------------------------------------------------------------------------
(* Properties of the runs with failures (FaultSpec) *)

\* C11: in network mode, when the caller's context was cancelled before
\* GetTitles was called or while its request was in flight, GetTitles
\* returns an error and no records; Do has not handed it a response.
C11_CancelledContextIsError ==
    (CallReturned /\ NetworkMode /\ ctx = "cancelled")
    => /\ result.err.type = "error"
       /\ result.titles = <<>>
       /\ response.arrived # "response"

\* The context was cancelled around a request for a source that holds a
\* title, and the call ended with the error of Do.
C11_Witness ==
    /\ CallReturned /\ NetworkMode /\ ctx = "cancelled"
    /\ Len(requests) = 1
    /\ WellFormedArray(source) /\ Len(source.elems) > 0
    /\ result.err = Errorf("error making request")

\* The handles a call acquires, and whether each Open of a handle is
\* followed by a Close of it.
Handles == {"definitions file", "response body", "buffered body"}
ClosedAfterOpen(h) ==
    \A i \in 1..Len(events) :
        events[i] = OpenEvent(h) => \E j \in (i + 1)..Len(events) : events[j] = CloseEvent(h)

\* C12: when a call has returned, every file it opened and every response
\* body it obtained has been closed, whichever way the call ended; a
\* response that arrived has its body among the handles.
C12_EveryHandleClosed ==
    pc = "done"
    => /\ \A h \in Handles : ClosedAfterOpen(h)
       /\ response.arrived = "response"
             => \E i \in 1..Len(events) : events[i] = OpenEvent("response body")
       /\ (CallReturned /\ FileMode /\ result.err # Errorf("error opening definitions file"))
             => FileOpened

\* The body could not be read for the log, and was closed all the same.
C12_Witness ==
    /\ CallReturned /\ client.logger
    /\ response.arrived = "response" /\ ~response.readOK
    /\ \E i \in 1..Len(events) : events[i] = LogAuthEvent("Failed to read response body")
    /\ events[Len(events)] = CloseEvent("response body")

\* The reports of a failed close among the events.
CloseReports(kind) ==
    {i \in 1..Len(events) :
        /\ events[i].ev = kind
        /\ \E h \in Handles : events[i].message \in {"Failed to close " \o h,
                                                     "warning: failed to close " \o h}}

\* C13: what GetTitles returns is what it returns when every Close
\* succeeds; a Close that failed is reported once, to the logger when the
\* client has one and by a printed warning when it has none.
C13_CloseFailureKeepsResult ==
    CallReturned
    => /\ (FileMode /\ FileOpened)
          => \E mapOrder \in MapOrders :
                LET ok == getTitlesFromFile(client, titleNames, source, TRUE, mapOrder, TRUE)
                IN  result.titles = ok.titles /\ result.err = ok.err
       /\ (NetworkMode /\ response.arrived = "response")
          => LET ok == handleResponse(client, titleNames, [response EXCEPT !.closeOK = TRUE])
             IN  result.titles = ok.titles /\ result.err = ok.err
       /\ client.logger => CloseReports("Printf") = {}
       /\ ~client.logger => CloseReports("LogAuth") = {}
       /\ (response.arrived = "response" /\ ~response.closeOK)
          => Cardinality(CloseReports("LogAuth") \cup CloseReports("Printf")) = 1

\* The body's Close failed after a call that returned a title; the client
\* has no logger and the warning was printed.
C13_Witness ==
    /\ CallReturned /\ NetworkMode /\ ~client.logger
    /\ response.arrived = "response" /\ ~response.closeOK
    /\ result.err = NoError /\ Len(result.titles) > 0
    /\ events[Len(events)] = PrintfEvent("warning: failed to close response body")

\* The elements of the file that are the first to carry a requested name.
FirstOccurrences ==
    {i \in 1..Len(source.elems) :
        /\ source.elems[i].kind = "object"
        /\ source.elems[i].title_name # JNull
        /\ source.elems[i].title_name[2] \in Requested
        /\ \A j \in 1..(i - 1) :
              source.elems[j].kind = "object"
              => source.elems[j].title_name # source.elems[i].title_name}

\* The k-th of them, in file order.
FirstOccurrence(k) ==
    CHOOSE i \in FirstOccurrences : Cardinality({j \in FirstOccurrences : j <= i}) = k

\* C27: in file mode with requested names, a successful result holds no two
\* records with the same name and only records whose name was requested,
\* in file order and not in the order of the request; of a name that
\* occurs several times in the file it holds the first occurrence only;
\* records with a null name are not returned.
C27_FirstOccurrencesInFileOrder ==
    (FileScanReturned /\ result.err = NoError)
    => /\ \A i, j \in 1..Len(result.titles) :
             i # j => result.titles[i].TitleName # result.titles[j].TitleName
       /\ \A i \in 1..Len(result.titles) :
             /\ result.titles[i].TitleName # Nil
             /\ Deref(result.titles[i].TitleName) \in Requested
       /\ Len(result.titles) = Cardinality(FirstOccurrences)
       /\ \A k \in 1..Len(result.titles) :
             result.titles[k] = decodeTitle(source.elems[FirstOccurrence(k)])

\* A file-mode call has asked for AppB and then AppA of a file that holds
\* AppA, a record without a name, AppA again and AppB: it has returned the
\* first AppA and then AppB.
C27_Witness ==
    /\ FileScanReturned /\ result.err = NoError
    /\ titleNames = <<"AppB", "AppA">>
    /\ Len(source.elems) = 4
    /\ result.titles = <<decodeTitle(source.elems[1]), decodeTitle(source.elems[4])>>

\* A network call has returned after a response arrived.
ResponseHandled == CallReturned /\ NetworkMode /\ response.arrived = "response"

\* What the call returns on the same response with no logger attached.
WithoutLogger == handleResponse([client EXCEPT !.logger = FALSE], titleNames, response)

\* C28: attaching a logger does not change what GetTitles returns: for
\* every response, whatever its status and its body, the records or the
\* error returned with a logger set are those returned with no logger.
C28_LoggerKeepsResult ==
    ResponseHandled
    => /\ result.titles = WithoutLogger.titles
       /\ result.err = WithoutLogger.err

\* C28, for the responses whose body can be read to its end: the logger
\* leaves the result as it is, logHTTPResponse having put the bytes it read
\* in the place of the body.
C28_ReadableBodyLoggerKeepsResult ==
    (ResponseHandled /\ response.readOK)
    => /\ result.titles = WithoutLogger.titles
       /\ result.err = WithoutLogger.err

\* A call with a logger has returned the titles of a body it logged.
C28_ReadableBodyWitness ==
    /\ ResponseHandled /\ response.readOK /\ client.logger
    /\ \E i \in 1..Len(events) : events[i].ev = "LogResponse"
    /\ Len(result.titles) > 0

\* The positions in the event log of the events of one kind.
EventsOf(kind) == {i \in DOMAIN events : events[i].ev = kind}

\* The positions of the events about the response body: its arrival and
\* its decode.
BodyEvents(kind) == {i \in EventsOf(kind) : events[i].name = "response body"}

\* A call in network mode with a logger attached, returned or in flight.
LoggedNetworkCall == NetworkMode /\ client.logger /\ caller # "none"

\* The log of a call whose request was sent: the request logged once and
\* first with the method, the URL and no body, already there while the
\* request is in flight; the response logged at most once, after it arrived
\* and before the decode, whatever the status, and never when the transport
\* failed.
LoggedAroundTheRequest ==
    /\ Len(requests) = 1
    /\ Cardinality(EventsOf("LogRequest")) = 1
    /\ events[1] = [ev |-> "LogRequest", method |-> "GET",
                    url |-> requestURL(client.baseURL, titleNames), body |-> Nil]
    /\ events[1].url = requests[1].url
    /\ Cardinality(EventsOf("LogResponse")) <= 1
    /\ pc = "inflight" => EventsOf("LogResponse") = {}
    /\ response.arrived = "error" => EventsOf("LogResponse") = {}
    /\ \A i \in EventsOf("LogResponse") :
          /\ response.arrived = "response"
          /\ events[i].statusCode = response.status
          /\ \E o \in BodyEvents("Open") : o < i
          /\ \A d \in BodyEvents("Decode") : i < d
    /\ (CallReturned /\ response.arrived = "response" /\ response.readOK)
       => Cardinality(EventsOf("LogResponse")) = 1

\* C29 as stated: in network mode with a logger attached, each GetTitles
\* call emits LogRequest exactly once, with the method and URL and no body,
\* before the request is sent, and emits LogResponse at most once, after the
\* response arrives and before the status check and the decode; when the
\* transport fails no LogResponse is emitted.
C29_EveryCallLogsItsRequest ==
    (LoggedNetworkCall /\ pc \in {"inflight", "done"} /\ (pc = "done" => result.done))
    => LoggedAroundTheRequest

\* C29, amended: in network mode with a logger attached, each GetTitles
\* call whose request could be created emits LogRequest exactly once, with
\* the method and URL and no body, before the request is sent, and emits
\* LogResponse at most once, after the response arrives and before the
\* status check and the decode; when the transport fails no LogResponse is
\* emitted; a call whose request cannot be created returns before either.
C29_SentRequestLoggedOnce ==
    (LoggedNetworkCall /\ pc \in {"inflight", "done"} /\ (pc = "done" => result.done))
    => IF newRequestFails(requestURL(client.baseURL, titleNames))
       THEN requests = <<>> /\ events = <<>>
       ELSE LoggedAroundTheRequest

\* A call with a logger that got a status other than 200 with a readable
\* body: the response is in the log, once, after the request.
C29_Witness ==
    /\ LoggedNetworkCall /\ CallReturned
    /\ response.arrived = "response" /\ response.status # 200 /\ response.readOK
    /\ result.err # NoError
    /\ Cardinality(EventsOf("LogRequest")) = 1
    /\ Cardinality(EventsOf("LogResponse")) = 1

\* A call with a logger on a client whose base URL does not parse: it
\* returned the request error and logged nothing.
C29_UnsentWitness ==
    /\ LoggedNetworkCall /\ CallReturned
    /\ newRequestFails(requestURL(client.baseURL, titleNames))
    /\ result.err = Errorf("error creating request")
    /\ events = <<>>

----------------------------------------------------------------------------
(* Properties of the calls side by side (ConcSpec) *)

\* The goroutines whose call of getOverlayImage has returned.
GotOverlay == {g \in Goroutines : goroutines[g].got # Nil}

\* C14: under any interleaving of the callers of getOverlayImage, the body
\* that decodes the badge runs at most once, no caller is out of
\* overlayOnce.Do or has returned before that body has finished, and every
\* caller is returned the same (image, error) pair.
C14_OverlayDecodedOnce ==
    /\ overlay.runs <= 1
    /\ \A g \in Goroutines :
          goroutines[g].pc = "read" => overlay.done /\ overlay.runs = 1
    /\ \A g \in GotOverlay : goroutines[g].got.done
    /\ \A g, h \in GotOverlay :
          /\ goroutines[g].got.image = goroutines[h].got.image
          /\ goroutines[g].got.err = goroutines[h].got.err

\* Two callers have returned from getOverlayImage, one of which ran the body.
C14_Witness ==
    /\ overlay.runs = 1
    /\ \E g, h \in GotOverlay : g # h

\* The goroutines whose call has returned.
ReturnedGoroutines == {g \in Goroutines : goroutines[g].pc = "returned"}

\* C15: calls of GetTitles on one Client and calls of processUninstallIcon
\* that run side by side are independent: each returns what it returns
\* when it runs alone, on its arguments and on what the file or the
\* endpoint gives it.
C15_CallsIndependent ==
    \A g \in ReturnedGoroutines :
        LET call == goroutines[g]
        IN  /\ call.op = "icon" => call.ret = processUninstallIcon(call.input)
            /\ (call.op = "titles" /\ client.definitionsFile # "")
               => \E mapOrder \in MapOrders :
                     LET alone == getTitlesFromFile(client, call.names, source, TRUE,
                                                    mapOrder, TRUE)
                     IN  call.ret = [titles |-> alone.titles, err |-> alone.err]
            /\ (call.op = "titles" /\ client.definitionsFile = "")
               => LET alone == handleResponse(client, call.names,
                                   Response(call.resp.status,
                                            matchingRecords(source, call.names),
                                            "matching", TRUE, TRUE))
                  IN  call.ret = [titles |-> alone.titles, err |-> alone.err]

\* A GetTitles call in network mode that returned titles and an icon call
\* that returned an image have run on two goroutines.
C15_Witness ==
    \E g, h \in ReturnedGoroutines :
        /\ goroutines[g].op = "titles" /\ Len(goroutines[g].ret.titles) > 0
        /\ goroutines[h].op = "icon" /\ goroutines[h].ret.result # Nil
        /\ client.definitionsFile = ""

\* The icon calls that have returned, and the inputs that decode: a base64
\* text of the bytes of an image.
ReturnedIcons == {g \in ReturnedGoroutines : goroutines[g].op = "icon"}
Decodable(text) ==
    /\ base64Decode(text).ok
    /\ imageDecode(base64Decode(text).bytes).ok
SourceImage(text) == imageDecode(base64Decode(text).bytes).image

\* The image a returned text holds: the text decoded, the bytes decoded.
OutputImage(ret) == imageDecode(base64Decode(Deref(ret.result)).bytes).image

\* C16: for every input that decodes, whatever its size, smaller or larger
\* than the base size, square or not, processUninstallIcon returns the
\* base64 of a PNG of exactly BaseImageSize by BaseImageSize pixels, and
\* the badge is drawn on the resized image, never on one of the source's
\* size.
C16_OutputIsBaseSize ==
    \A g \in ReturnedIcons :
        LET call == goroutines[g]
        IN  Decodable(call.input)
            => /\ call.ret.err = NoError /\ ~call.ret.panicked /\ call.ret.result # Nil
               /\ Decodable(Deref(call.ret.result))
               /\ OutputImage(call.ret).w = BaseImageSize
               /\ OutputImage(call.ret).h = BaseImageSize
               /\ OutputImage(call.ret).kind = "composite"
               /\ OutputImage(call.ret).base.w = BaseImageSize
               /\ OutputImage(call.ret).base.h = BaseImageSize
               /\ OutputImage(call.ret).base.of = SourceImage(call.input)

\* Icons have been made of a square source smaller than the base size and
\* of a source that is larger and not square.
C16_Witness ==
    \E g, h \in ReturnedIcons :
        /\ Decodable(goroutines[g].input) /\ Decodable(goroutines[h].input)
        /\ SourceImage(goroutines[g].input).w < BaseImageSize
        /\ SourceImage(goroutines[g].input).w = SourceImage(goroutines[g].input).h
        /\ SourceImage(goroutines[h].input).w > BaseImageSize
        /\ SourceImage(goroutines[h].input).w # SourceImage(goroutines[h].input).h
        /\ goroutines[g].ret.result # Nil /\ goroutines[h].ret.result # Nil

\* Where the badge's square starts, and the coordinates looked at: the
\* first and the last row and column of the image, and the two on either
\* side of the square's edge.
BadgeCorner == BaseImageSize - OverlaySize
SamplePoints == {0, BadgeCorner - 1, BadgeCorner, BaseImageSize - 1}

\* C17: the badge is OverlaySize by OverlaySize pixels and is drawn at the
\* offset (BaseImageSize - OverlaySize, BaseImageSize - OverlaySize), the
\* bottom-right corner; every pixel of the output outside that square is
\* the pixel of the plain resize of the input, and inside it the badge's
\* pixel lies over the resize's.
C17_BadgeAtBottomRight ==
    \A g \in ReturnedIcons :
        goroutines[g].ret.result # Nil
        => LET out == OutputImage(goroutines[g].ret)
               plain == resizeBase(SourceImage(goroutines[g].input))
           IN  /\ out.at = [x |-> BadgeCorner, y |-> BadgeCorner]
               /\ out.overlay.w = OverlaySize /\ out.overlay.h = OverlaySize
               /\ \A x, y \in SamplePoints :
                     IF x >= BadgeCorner /\ y >= BadgeCorner
                     THEN PixelAt(out, x, y) =
                            <<"over",
                              PixelAt(out.overlay, x - BadgeCorner, y - BadgeCorner),
                              PixelAt(plain, x, y)>>
                     ELSE PixelAt(out, x, y) = PixelAt(plain, x, y)

\* An icon has been made: the call drew the badge and encoded the image.
C17_Witness ==
    \E g \in ReturnedIcons :
        /\ goroutines[g].ret.result # Nil
        /\ {"resize", "badge", "encode"} \subseteq
              {goroutines[g].steps[i] : i \in 1..Len(goroutines[g].steps)}

\* The steps of a call, as a set.
StepsOf(g) == {goroutines[g].steps[i] : i \in 1..Len(goroutines[g].steps)}

\* C18: processUninstallIcon is deterministic: calls with the same input
\* return the same result and error, the call that comes first and decodes
\* the badge and the calls that find it decoded alike.
C18_SameInputSameOutput ==
    \A g, h \in ReturnedIcons :
        goroutines[g].input = goroutines[h].input
        => goroutines[g].ret = goroutines[h].ret

\* Two calls with the same input have made an icon, one of them decoded
\* the badge and the other found it decoded.
C18_Witness ==
    \E g, h \in ReturnedIcons :
        /\ goroutines[g].input = goroutines[h].input
        /\ goroutines[g].ret.result # Nil
        /\ "decodeOverlay" \in StepsOf(g)
        /\ "decodeOverlay" \notin StepsOf(h)

\* The steps of processUninstallIcon after its two decodes.
LaterSteps == {"resize", "getOverlayImage", "decodeOverlay", "badge", "encode"}

\* C19: for a text that is no valid base64, and for valid base64 of bytes
\* that are no image, processUninstallIcon returns a nil result and the
\* error of the decode that failed; it does not panic and reaches none of
\* the steps that resize, fetch and draw the badge, or encode.
C19_UndecodableIsError ==
    \A g \in ReturnedIcons :
        LET call == goroutines[g]
        IN  /\ ~call.input.base64
               => /\ call.ret = IconReturned(Nil, Errorf("error decoding base image"))
                  /\ StepsOf(g) \cap LaterSteps = {}
            /\ (call.input.base64 /\ call.input.bytes = NotAnImage)
               => /\ call.ret = IconReturned(Nil, Errorf("error decoding base image bytes"))
                  /\ StepsOf(g) \cap LaterSteps = {}

\* A call with a text that is no base64 and a call with the base64 of
\* bytes that are no image have returned.
C19_Witness ==
    \E g, h \in ReturnedIcons :
        /\ goroutines[g].input = NotBase64
        /\ goroutines[h].input = Base64Text(NotAnImage)

----------------------------------------------------------------------------
(* Properties of the assembly of a title record (AssembleSpec) *)

\* The requirements whose name is exactly the bundle ID's.
BundleIDEntries(requirements) ==
    {i \in 1..Len(requirements) :
        /\ requirements[i].Name # Nil
        /\ Deref(requirements[i].Name) = "Application Bundle ID"}

\* The value of the first of them, null when there is none.
FirstBundleID(requirements) ==
    IF BundleIDEntries(requirements) = {} THEN Nil
    ELSE requirements[CHOOSE i \in BundleIDEntries(requirements) :
                         \A j \in BundleIDEntries(requirements) : i <= j].Value

\* C20: when a title record is assembled, its bundle ID is the value of
\* the first requirement, in list order, named exactly "Application Bundle
\* ID", and null when no requirement has that name (no requirements, other
\* names, null names); the assembly does not crash.
C20_BundleIDIsFirstMatch ==
    assembly.phase = "assembled"
    => /\ ~assembly.found.panicked
       /\ assembly.found.bundleID = FirstBundleID(assembly.requirements)

\* C20, for extractBundleID alone: the helper returns the value of the
\* first requirement named "Application Bundle ID", null without one, and
\* does not crash.
C20_ExtractBundleIDIsFirstMatch ==
    (assembly.phase = "assembled" /\ assembly.via = "extractBundleID")
    => assembly.found = BundleID(FirstBundleID(assembly.requirements))

\* extractBundleID has gone past a requirement with a null name and found
\* the bundle ID behind it.
C20_ExtractWitness ==
    /\ assembly.phase = "assembled" /\ assembly.via = "extractBundleID"
    /\ Len(assembly.requirements) > 1
    /\ assembly.requirements[1].Name = Nil
    /\ assembly.found.bundleID # Nil

----------------------------------------------------------------------------
(* Properties of the assembly of a batch (BuildSpec) *)

\* buildTitleModelsFromResponse has returned, without an error.
HelperBuilt == assembly.phase = "built" /\ assembly.via = "buildTitleModelsFromResponse"
HelperSucceeded == HelperBuilt /\ assembly.built.err = NoError

\* A field of a model carries a field of the record: null for nil, the
\* string otherwise.
Carries(field, p) ==
    IF p = Nil THEN field.null ELSE ~field.null /\ field.value = Deref(p)

\* C21: on success buildTitleModelsFromResponse returns one model per
\* input record, in the input order, an empty list for an empty input;
\* each model carries the record's fields unchanged, null for the absent
\* ones, and its uninstall icon is non-null exactly when the record's icon
\* is non-null.
C21_OneModelPerRecord ==
    HelperSucceeded
    => /\ Len(assembly.built.models) = Len(assembly.titles)
       /\ \A i \in 1..Len(assembly.titles) :
             LET title == assembly.titles[i]
                 model == assembly.built.models[i]
             IN  /\ Carries(model.TitleName, title.TitleName)
                 /\ Carries(model.TitleVersion, title.TitleVersion)
                 /\ Carries(model.IconBase64, title.IconHiRes)
                 /\ model.UninstallIconBase64.null <=> title.IconHiRes = Nil

\* A batch of two different records, one with an icon and one without,
\* one of them without a name, has been assembled.
C21_Witness ==
    /\ HelperSucceeded
    /\ Len(assembly.titles) = 2
    /\ assembly.titles[1].IconHiRes = Nil /\ assembly.titles[2].IconHiRes # Nil
    /\ assembly.titles[1].TitleName = Nil /\ assembly.titles[2].TitleName # Nil

\* The titles of the batch whose icon does not process.
FailingIcons ==
    {i \in 1..Len(assembly.titles) : uninstallIconOf(assembly.titles[i]).err # NoError}

\* C30: the assembly is all or nothing: when the icon of one title of the
\* batch fails, buildTitleModelsFromResponse returns an error and no model
\* at all, and Read writes no state, whatever titles come before the
\* failing one or have no icon.
C30_AllOrNothing ==
    (assembly.phase = "built" /\ FailingIcons # {})
    => /\ assembly.via = "buildTitleModelsFromResponse"
          => /\ assembly.built.err # NoError
             /\ assembly.built.models = <<>>
       /\ assembly.via = "Read"
          => /\ ~assembly.read.stateSet
             /\ assembly.read.models = <<>>

\* buildTitleModelsFromResponse has run on a batch whose first title has
\* no icon and whose second title's icon fails.
C30_Witness ==
    /\ assembly.phase = "built"
    /\ FailingIcons = {2}
    /\ assembly.titles[1].IconHiRes = Nil
    /\ assembly.via = "buildTitleModelsFromResponse"

----------------------------------------------------------------------------
(* Properties of the calls one after another (SeqSpec) *)

\* The titles and the error of what GetTitles came to.
TitlesAndError(ret) == [titles |-> ret.titles, err |-> ret.err]

\* C25: after any sequence of GetTitles calls and changes of the source
\* (the file's content, what the endpoint serves), what a call returns
\* depends only on its arguments and on the source at the time of the call:
\* a file-mode call returns what the file holds when it runs, a network
\* call is answered from the source as it is when the response is made and
\* returns what that response holds; no record, name or error of an earlier
\* call comes back.
C25_NothingReused ==
    [][\A g \in Goroutines :
          /\ (goroutines[g].pc = "idle" /\ goroutines'[g].pc = "returned")
             => \E mapOrder \in MapOrders :
                   goroutines'[g].ret =
                       TitlesAndError(getTitlesFromFile(client, goroutines'[g].names,
                                                        source, TRUE, mapOrder, TRUE))
          /\ (goroutines[g].pc = "inflight" /\ goroutines'[g].pc = "arrived")
             => goroutines'[g].resp.body = matchingRecords(source, goroutines[g].names)
          /\ (goroutines[g].pc = "arrived" /\ goroutines'[g].pc = "returned")
             => goroutines'[g].ret =
                    TitlesAndError(handleResponse(client, goroutines[g].names,
                                                  goroutines[g].resp))]_vars

\* Two calls with the same names have both succeeded and returned different
\* titles: the source changed between them.
C25_Witness ==
    \E g, h \in ReturnedGoroutines :
        /\ goroutines[g].op = "titles" /\ goroutines[h].op = "titles"
        /\ goroutines[g].names = goroutines[h].names
        /\ goroutines[g].ret.err = NoError /\ goroutines[h].ret.err = NoError
        /\ goroutines[g].ret.titles # goroutines[h].ret.titles

====
